---- MODULE Spec2Model ----
(***************************************************************************)
(* Model of package draw (image composition, Porter-Duff Over and Src),    *)
(* src/src/pkg/http/cgi/child.go lines 201-680: clip, Draw, DrawMask, the  *)
(* generic per-pixel loop, the *image.RGBA fast paths and drawRGBA.        *)
(***************************************************************************)
EXTENDS Integers, Sequences, FiniteSets, TLC

\* ------------------------------------------------------------------------
\* Bounds of the model
\* ------------------------------------------------------------------------

\* The destination buffer is DstW x DstH pixels, bounds (0,0)-(DstW,DstH).
DstW == 4
DstH == 4
\* the longest slice written to or read from a pipe
MaxLen == 2
\* the number of Read or Write calls each goroutine makes on a pipe
MaxCalls == 1

\* ------------------------------------------------------------------------
\* Constants of the program
\* ------------------------------------------------------------------------

\* m is the maximum color value returned by image.Color.RGBA.
m == 65535

\* Over specifies ``(src in mask) over dst'', Src specifies ``src in mask''.
Over == "Over"
Src == "Src"
Op == {Over, Src}

\* ------------------------------------------------------------------------
\* uint32 arithmetic.  A uint32 is kept as <<hi, lo>> with value
\* hi * 2^16 + lo, so that products that exceed the checker's integers keep
\* the 32-bit width of the program.
\* ------------------------------------------------------------------------

W16 == 65536

\* x * y for x, y < 2^16, exactly (the product is below 2^32).
U32Mul16(x, y) ==
    LET p == (x \div 256) * y
        q == (x % 256) * y
        t == (p % 256) * 256 + q
    IN  << (p \div 256) + (t \div W16), t % W16 >>

\* the low 16 bits of x * y for x, y < 2^16
Low16Mul(x, y) == U32Mul16(x, y)[2]

\* uint32 product x * y of two values below 2^31, modulo 2^32
U32Mul(x, y) ==
    LET xh == x \div W16
        xl == x % W16
        yh == y \div W16
        yl == y % W16
        ll == U32Mul16(xl, yl)
        cross == (Low16Mul(xh, yl) + Low16Mul(xl, yh)) % W16
    IN  << (ll[1] + cross) % W16, ll[2] >>

\* uint32 sum, modulo 2^32
U32Add(p, q) ==
    LET lo == p[2] + q[2]
    IN  << (p[1] + q[1] + (lo \div W16)) % W16, lo % W16 >>

\* uint32 quotient p / m  (hi*65536 + lo = hi*65535 + (hi + lo))
U32DivM(p) == p[1] + ((p[1] + p[2]) \div m)

\* (x * y) / m in uint32
MulDivM(x, y) == U32DivM(U32Mul(x, y))

\* (d * a + s * ma) / m with the sum kept in 16 bits
MulAddDivMUint16(d, a, s, ma) == U32DivM(<< 0, U32Add(U32Mul(d, a), U32Mul(s, ma))[2] >>)

\* (d * a + s * ma) / m in uint32
MulAddDivM(d, a, s, ma) == U32DivM(U32Add(U32Mul(d, a), U32Mul(s, ma)))

\* uint16(v), uint8(v >> 8)
Uint16(v) == v % W16
Hi8(v) == (v \div 256) % 256

\* ------------------------------------------------------------------------
\* Geometry (package image: Point, Rectangle)
\* ------------------------------------------------------------------------

Pt(x, y) == [X |-> x, Y |-> y]
Rect(x0, y0, x1, y1) == [Min |-> Pt(x0, y0), Max |-> Pt(x1, y1)]
ZP == Pt(0, 0)

PtAdd(p, q) == Pt(p.X + q.X, p.Y + q.Y)
PtSub(p, q) == Pt(p.X - q.X, p.Y - q.Y)
RectAdd(r, p) == [Min |-> PtAdd(r.Min, p), Max |-> PtAdd(r.Max, p)]

Max2(a, b) == IF a > b THEN a ELSE b
Min2(a, b) == IF a < b THEN a ELSE b

Intersect(r, s) ==
    Rect(Max2(r.Min.X, s.Min.X), Max2(r.Min.Y, s.Min.Y),
         Min2(r.Max.X, s.Max.X), Min2(r.Max.Y, s.Max.Y))

Empty(r) == r.Min.X >= r.Max.X \/ r.Min.Y >= r.Max.Y

Overlaps(r, s) ==
    /\ r.Min.X < s.Max.X /\ s.Min.X < r.Max.X
    /\ r.Min.Y < s.Max.Y /\ s.Min.Y < r.Max.Y

Contains(r, p) ==
    /\ r.Min.X <= p.X /\ p.X < r.Max.X
    /\ r.Min.Y <= p.Y /\ p.Y < r.Max.Y

Dx(r) == r.Max.X - r.Min.X
Dy(r) == r.Max.Y - r.Min.Y

\* the points of a rectangle
Points(r) == { Pt(x, y) : x \in r.Min.X .. (r.Max.X - 1), y \in r.Min.Y .. (r.Max.Y - 1) }

\* ------------------------------------------------------------------------
\* Colours and pixel buffers (package image: Color, RGBA, NRGBA, RGBA64,
\* Alpha, Alpha16, ColorImage; package ycbcr: YCbCr)
\* ------------------------------------------------------------------------

\* var zeroColor image.Color = image.AlphaColor{0}: RGBA() is 0,0,0,0
zeroColor == <<0, 0, 0, 0>>

Clamp8(v) == IF v < 0 THEN 0 ELSE IF v > 255 THEN 255 ELSE v

\* floor(v / 2^16) of a possibly negative v (an arithmetic shift right by 16)
Asr16(v) == IF v >= 0 THEN v \div W16 ELSE -(((-v) + W16 - 1) \div W16)

\* ycbcr.YCbCrToRGB
YCbCrToRGB(yy, cb, cr) ==
    LET y1 == yy * W16 + 32768
        cb1 == cb - 128
        cr1 == cr - 128
    IN  << Clamp8(Asr16(y1 + 91881 * cr1)),
           Clamp8(Asr16(y1 - 22554 * cb1 - 46802 * cr1)),
           Clamp8(Asr16(y1 + 116130 * cb1)) >>

\* Color.RGBA() of a stored pixel value v of an image of the given kind:
\* the alpha-premultiplied 16-bit quadruple.
ColorRGBA(kind, v) ==
    CASE kind = "RGBA"    -> << v[1] * 257, v[2] * 257, v[3] * 257, v[4] * 257 >>
      [] kind = "NRGBA"   -> << (v[1] * 257 * v[4]) \div 255, (v[2] * 257 * v[4]) \div 255,
                                (v[3] * 257 * v[4]) \div 255, v[4] * 257 >>
      [] kind = "RGBA64"  -> v
      [] kind = "Alpha"   -> << v[1] * 257, v[1] * 257, v[1] * 257, v[1] * 257 >>
      [] kind = "Alpha16" -> << v[1], v[1], v[1], v[1] >>
      [] kind = "YCbCr"   -> LET c == YCbCrToRGB(v[1], v[2], v[3])
                             IN  << c[1] * 257, c[2] * 257, c[3] * 257, m >>
      [] OTHER            -> v

\* The value a destination of the given kind stores for the 16-bit colour c
\* (the colour model's conversion inside Set).
Narrow(kind, c) ==
    IF kind = "RGBA" THEN << Hi8(c[1]), Hi8(c[2]), Hi8(c[3]), Hi8(c[4]) >>
                     ELSE << Uint16(c[1]), Uint16(c[2]), Uint16(c[3]), Uint16(c[4]) >>

\* Bounds() of an image.  A ColorImage is unbounded.
Bounds(img) ==
    IF img.kind = "ColorImage" THEN Rect(-1000000000, -1000000000, 1000000000, 1000000000)
                               ELSE img.Rect

\* index of pixel (x, y) in Pix
PixIdx(img, x, y) == y * img.Stride + x

\* a slice element read; an index outside the slice is a run-time panic
Load(pix, i) == IF i \in DOMAIN pix THEN pix[i] ELSE zeroColor

\* the chroma index taken as if the chroma planes had full resolution
ChromaIdxFullRes(img, x, y) == y * img.CStride + x

\* the chroma index of luma sample (x, y) of a YCbCr image
ChromaIdx(img, x, y) ==
    CASE img.Ratio = "422" -> y * img.CStride + (x \div 2)
      [] img.Ratio = "420" -> (y \div 2) * img.CStride + (x \div 2)
      [] OTHER             -> y * img.CStride + x

\* the <<Y, Cb, Cr>> sample triple of pixel (x, y) of a YCbCr image
YCbCrSample(img, x, y) ==
    << Load(img.Pix, y * img.Stride + x)[1],
       Load(img.CPix, ChromaIdx(img, x, y))[1],
       Load(img.CPix, ChromaIdx(img, x, y))[2] >>

\* img.At(x, y).RGBA(), reading the pixel storage pix
At(img, pix, x, y) ==
    CASE img.kind = "ColorImage" -> img.C
      [] img.kind = "YCbCr" ->
            IF Contains(img.Rect, Pt(x, y))
            THEN ColorRGBA("YCbCr", YCbCrSample(img, x, y))
            ELSE zeroColor
      [] OTHER ->
            IF Contains(img.Rect, Pt(x, y))
            THEN ColorRGBA(img.kind, Load(pix, PixIdx(img, x, y)))
            ELSE zeroColor

\* pix after img.Set(x, y, c)
Set(img, pix, x, y, c) ==
    IF Contains(img.Rect, Pt(x, y)) /\ PixIdx(img, x, y) \in DOMAIN pix
    THEN [pix EXCEPT ![PixIdx(img, x, y)] = Narrow(img.kind, c)]
    ELSE pix

\* pix after the slice element store pix[i] = v
Store(pix, i, v) == IF i \in DOMAIN pix THEN [pix EXCEPT ![i] = v] ELSE pix

\* ------------------------------------------------------------------------
\* clip
\* ------------------------------------------------------------------------

\* clip without the intersection with the source's bounds
clipNoSrc(dst, r, src, sp, mask, mp) ==
    LET orig == r.Min
        r1 == Intersect(r, Bounds(dst))
        r3 == IF mask.kind # "nil"
              THEN Intersect(r1, RectAdd(Bounds(mask), PtSub(orig, mp)))
              ELSE r1
        dx == r3.Min.X - orig.X
        dy == r3.Min.Y - orig.Y
    IN  IF dx = 0 /\ dy = 0
        THEN [r |-> r3, sp |-> sp, mp |-> mp]
        ELSE [r |-> r3, sp |-> Pt(sp.X + dx, sp.Y + dy), mp |-> Pt(mp.X + dx, mp.Y + dy)]

\* clip that shifts sp but forgets to shift mp
clipNoMpShift(dst, r, src, sp, mask, mp) ==
    LET orig == r.Min
        r1 == Intersect(r, Bounds(dst))
        r2 == Intersect(r1, RectAdd(Bounds(src), PtSub(orig, sp)))
        r3 == IF mask.kind # "nil"
              THEN Intersect(r2, RectAdd(Bounds(mask), PtSub(orig, mp)))
              ELSE r2
        dx == r3.Min.X - orig.X
        dy == r3.Min.Y - orig.Y
    IN  [r |-> r3, sp |-> Pt(sp.X + dx, sp.Y + dy), mp |-> mp]

\* clip clips r against each image's bounds (after translating into the
\* destination image's co-ordinate space) and shifts the points sp and mp by
\* the same amount as the change in r.Min.  The result is the clipped
\* r, sp and mp.
clip(dst, r, src, sp, mask, mp) ==
    LET orig == r.Min
        r1 == Intersect(r, Bounds(dst))
        r2 == Intersect(r1, RectAdd(Bounds(src), PtSub(orig, sp)))
        r3 == IF mask.kind # "nil"
              THEN Intersect(r2, RectAdd(Bounds(mask), PtSub(orig, mp)))
              ELSE r2
        dx == r3.Min.X - orig.X
        dy == r3.Min.Y - orig.Y
    IN  IF dx = 0 /\ dy = 0
        THEN [r |-> r3, sp |-> sp, mp |-> mp]
        ELSE [r |-> r3, sp |-> Pt(sp.X + dx, sp.Y + dy), mp |-> Pt(mp.X + dx, mp.Y + dy)]

\* ------------------------------------------------------------------------
\* The state of one call: the destination's pixel storage, the coordinates
\* of dst, src and mask that the call has read or written so far, whether a
\* slice index was out of range, and the direction of the sweep.
\* A call's context c is [dst, r, src, sp, mask, mp, op], after clip.
\* ------------------------------------------------------------------------

Start(dst) ==
    [pix |-> dst.Pix, dacc |-> {}, sacc |-> {}, macc |-> {}, panic |-> FALSE,
     dir |-> 1, path |-> "none", hang |-> FALSE, stale |-> FALSE]

\* the source's pixel storage: the destination's own when src is dst
SrcPix(c, st) == IF c.src.alias THEN st.pix ELSE c.src.Pix

\* the order in which a double loop visits the pixels of r: rows from y0 by
\* dy, and in each row columns from x0 by dx
Order(r, x0, dx, y0, dy) ==
    LET w == Dx(r)
    IN  [k \in 1 .. (Dx(r) * Dy(r)) |->
            Pt(x0 + dx * ((k - 1) % w), y0 + dy * ((k - 1) \div w))]

\* the backward test without the comparison of the x co-ordinates
BackwardRowsOnly(c) ==
    /\ c.src.alias
    /\ Overlaps(c.r, RectAdd(c.r, PtSub(c.sp, c.r.Min)))
    /\ c.sp.Y < c.r.Min.Y

\* the backward test with the comparison of sp and r.Min the wrong way round
BackwardWrongSide(c) ==
    /\ c.src.alias
    /\ Overlaps(c.r, RectAdd(c.r, PtSub(c.sp, c.r.Min)))
    /\ (c.sp.Y > c.r.Min.Y \/ (c.sp.Y = c.r.Min.Y /\ c.sp.X > c.r.Min.X))

\* the sweep of the generic loop and of drawRGBA
\* (backward when dst is src, the rectangles overlap and sp is before r.Min)
Backward(c) ==
    /\ c.src.alias
    /\ Overlaps(c.r, RectAdd(c.r, PtSub(c.sp, c.r.Min)))
    /\ (c.sp.Y < c.r.Min.Y \/ (c.sp.Y = c.r.Min.Y /\ c.sp.X < c.r.Min.X))

\* the mask alpha with a nil mask treated as fully transparent
MaskAlphaNilTransparent(c, p) ==
    IF c.mask.kind = "nil" THEN 0
    ELSE At(c.mask, c.mask.Pix, c.mp.X + p.X - c.r.Min.X, c.mp.Y + p.Y - c.r.Min.Y)[4]

\* the mask alpha at the mask pixel paired with p (m when there is no mask)
MaskAlpha(c, p) ==
    IF c.mask.kind = "nil" THEN m
    ELSE At(c.mask, c.mask.Pix, c.mp.X + p.X - c.r.Min.X, c.mp.Y + p.Y - c.r.Min.Y)[4]

MaskPt(c, p) == Pt(c.mp.X + p.X - c.r.Min.X, c.mp.Y + p.Y - c.r.Min.Y)
SrcPt(c, p) == Pt(c.sp.X + p.X - c.r.Min.X, c.sp.Y + p.Y - c.r.Min.Y)

LogMask(c, st, p) ==
    IF c.mask.kind = "nil" THEN st ELSE [st EXCEPT !.macc = @ \cup {MaskPt(c, p)}]

\* the generic loop body that blends with the destination under Src too
genericPixelSrcKeepsDst(c, st, p) ==
    LET q == SrcPt(c, p)
        ma == MaskAlpha(c, p)
        st1 == LogMask(c, st, p)
        s == At(c.src, SrcPix(c, st), q.X, q.Y)
        d == At(c.dst, st.pix, p.X, p.Y)
        a == m - MulDivM(s[4], ma)
        out == [i \in 1 .. 4 |-> Uint16(MulAddDivM(d[i], a, s[i], ma))]
    IN  CASE ma = 0 ->
               IF c.op = Over THEN st1
               ELSE [st1 EXCEPT !.pix = Set(c.dst, @, p.X, p.Y, zeroColor),
                                !.dacc = @ \cup {p}]
          [] ma = m /\ c.op = Src ->
               [st1 EXCEPT !.pix = Set(c.dst, @, p.X, p.Y, s),
                           !.dacc = @ \cup {p}, !.sacc = @ \cup {q}]
          [] OTHER ->
               [st1 EXCEPT !.pix = Set(c.dst, @, p.X, p.Y, out),
                           !.dacc = @ \cup {p}, !.sacc = @ \cup {q}]

\* one iteration of the generic loop of DrawMask, at pixel p
genericPixel(c, st, p) ==
    LET q == SrcPt(c, p)
        ma == MaskAlpha(c, p)
        st1 == LogMask(c, st, p)
        s == At(c.src, SrcPix(c, st), q.X, q.Y)
        d == At(c.dst, st.pix, p.X, p.Y)
        a == m - MulDivM(s[4], ma)
        out == IF c.op = Over
               THEN [i \in 1 .. 4 |-> Uint16(MulAddDivM(d[i], a, s[i], ma))]
               ELSE [i \in 1 .. 4 |-> Uint16(MulDivM(s[i], ma))]
    IN  CASE ma = 0 ->
               IF c.op = Over THEN st1
               ELSE [st1 EXCEPT !.pix = Set(c.dst, @, p.X, p.Y, zeroColor),
                                !.dacc = @ \cup {p}]
          [] ma = m /\ c.op = Src ->
               [st1 EXCEPT !.pix = Set(c.dst, @, p.X, p.Y, s),
                           !.dacc = @ \cup {p}, !.sacc = @ \cup {q}]
          [] OTHER ->
               [st1 EXCEPT !.pix = Set(c.dst, @, p.X, p.Y, out),
                           !.dacc = @ \cup {p}, !.sacc = @ \cup {q}]

\* drawRGBA's loop body without the test of op: always the Over formula
drawRGBAPixelAlwaysOver(c, st, p) ==
    LET q == SrcPt(c, p)
        ma == MaskAlpha(c, p)
        st1 == LogMask(c, st, p)
        s == At(c.src, SrcPix(c, st), q.X, q.Y)
        i == PixIdx(c.dst, p.X, p.Y)
        rgba == Load(st.pix, i)
        a == (m - MulDivM(s[4], ma)) * 257
        d == [k \in 1 .. 4 |-> MulAddDivM(rgba[k], a, s[k], ma)]
    IN  [st1 EXCEPT !.pix = Store(@, i, << Hi8(d[1]), Hi8(d[2]), Hi8(d[3]), Hi8(d[4]) >>),
                    !.dacc = @ \cup {p}, !.sacc = @ \cup {q},
                    !.panic = @ \/ i \notin DOMAIN st.pix]

\* drawRGBA's loop body with the blend factor not scaled by 0x101
drawRGBAPixelNoScale(c, st, p) ==
    LET q == SrcPt(c, p)
        ma == MaskAlpha(c, p)
        st1 == LogMask(c, st, p)
        s == At(c.src, SrcPix(c, st), q.X, q.Y)
        i == PixIdx(c.dst, p.X, p.Y)
        rgba == Load(st.pix, i)
        a == m - MulDivM(s[4], ma)
        d == IF c.op = Over
             THEN [k \in 1 .. 4 |-> MulAddDivM(rgba[k], a, s[k], ma)]
             ELSE [k \in 1 .. 4 |-> MulDivM(s[k], ma)]
    IN  [st1 EXCEPT !.pix = Store(@, i, << Hi8(d[1]), Hi8(d[2]), Hi8(d[3]), Hi8(d[4]) >>),
                    !.dacc = @ \cup {p}, !.sacc = @ \cup {q},
                    !.panic = @ \/ i \notin DOMAIN st.pix]

\* one iteration of the loop of drawRGBA, at pixel p
drawRGBAPixel(c, st, p) ==
    LET q == SrcPt(c, p)
        ma == MaskAlpha(c, p)
        st1 == LogMask(c, st, p)
        s == At(c.src, SrcPix(c, st), q.X, q.Y)
        i == PixIdx(c.dst, p.X, p.Y)
        rgba == Load(st.pix, i)
        a == (m - MulDivM(s[4], ma)) * 257
        d == IF c.op = Over
             THEN [k \in 1 .. 4 |-> MulAddDivM(rgba[k], a, s[k], ma)]
             ELSE [k \in 1 .. 4 |-> MulDivM(s[k], ma)]
    IN  [st1 EXCEPT !.pix = Store(@, i, << Hi8(d[1]), Hi8(d[2]), Hi8(d[3]), Hi8(d[4]) >>),
                    !.dacc = @ \cup {p}, !.sacc = @ \cup {q},
                    !.panic = @ \/ i \notin DOMAIN st.pix]

\* the 8-bit pixel stored for the 16-bit working values d
Pack8(d) == << Hi8(d[1]), Hi8(d[2]), Hi8(d[3]), Hi8(d[4]) >>

\* drawFillOver's loop body with the destination kept at full weight
drawFillOverPixelKeepDst(c, st, p) ==
    LET i == PixIdx(c.dst, p.X, p.Y)
        rgba == Load(st.pix, i)
        a == m * 257
        d == [k \in 1 .. 4 |-> U32DivM(U32Mul(rgba[k], a)) + c.src.C[k]]
    IN  [st EXCEPT !.pix = Store(@, i, Pack8(d)), !.dacc = @ \cup {p},
                   !.panic = @ \/ i \notin DOMAIN st.pix]

\* one iteration of drawFillOver, at pixel p
drawFillOverPixel(c, st, p) ==
    LET i == PixIdx(c.dst, p.X, p.Y)
        rgba == Load(st.pix, i)
        a == (m - c.src.C[4]) * 257
        d == [k \in 1 .. 4 |-> U32DivM(U32Mul(rgba[k], a)) + c.src.C[k]]
    IN  [st EXCEPT !.pix = Store(@, i, Pack8(d)), !.dacc = @ \cup {p},
                   !.panic = @ \/ i \notin DOMAIN st.pix]

\* drawCopyOver's loop body with the blend factor not scaled by 0x101
drawCopyOverPixelNoScale(c, st, p) ==
    LET q == SrcPt(c, p)
        i == PixIdx(c.dst, p.X, p.Y)
        j == PixIdx(c.src, q.X, q.Y)
        s == ColorRGBA("RGBA", Load(SrcPix(c, st), j))
        rgba == Load(st.pix, i)
        a == m - s[4]
        d == [k \in 1 .. 4 |-> U32DivM(U32Mul(rgba[k], a)) + s[k]]
    IN  [st EXCEPT !.pix = Store(@, i, Pack8(d)),
                   !.dacc = @ \cup {p}, !.sacc = @ \cup {q},
                   !.stale = @ \/ (c.src.alias /\ q \in st.dacc),
                   !.panic = @ \/ i \notin DOMAIN st.pix \/ j \notin DOMAIN SrcPix(c, st)]

\* one iteration of drawCopyOver, at pixel p
drawCopyOverPixel(c, st, p) ==
    LET q == SrcPt(c, p)
        i == PixIdx(c.dst, p.X, p.Y)
        j == PixIdx(c.src, q.X, q.Y)
        s == ColorRGBA("RGBA", Load(SrcPix(c, st), j))
        rgba == Load(st.pix, i)
        a == (m - s[4]) * 257
        d == [k \in 1 .. 4 |-> U32DivM(U32Mul(rgba[k], a)) + s[k]]
    IN  [st EXCEPT !.pix = Store(@, i, Pack8(d)),
                   !.dacc = @ \cup {p}, !.sacc = @ \cup {q},
                   !.stale = @ \/ (c.src.alias /\ q \in st.dacc),
                   !.panic = @ \/ i \notin DOMAIN st.pix \/ j \notin DOMAIN SrcPix(c, st)]

\* the conversion with the division by 0xff replaced by a shift by 8
NRGBAToRGBAShift(v) ==
    << (v[1] * 257 * v[4]) \div 256, (v[2] * 257 * v[4]) \div 256,
       (v[3] * 257 * v[4]) \div 256, v[4] * 257 >>

\* the premultiplied 16-bit colour of the non-premultiplied 8-bit pixel v,
\* as drawNRGBAOver and drawNRGBASrc compute it
NRGBAToRGBA(v) ==
    << (v[1] * 257 * v[4]) \div 255, (v[2] * 257 * v[4]) \div 255,
       (v[3] * 257 * v[4]) \div 255, v[4] * 257 >>

\* one iteration of drawNRGBAOver, at pixel p
drawNRGBAOverPixel(c, st, p) ==
    LET q == SrcPt(c, p)
        i == PixIdx(c.dst, p.X, p.Y)
        j == PixIdx(c.src, q.X, q.Y)
        s == NRGBAToRGBA(Load(c.src.Pix, j))
        rgba == Load(st.pix, i)
        a == (m - s[4]) * 257
        d == [k \in 1 .. 4 |-> MulAddDivM(rgba[k], a, s[k], m)]
    IN  [st EXCEPT !.pix = Store(@, i, Pack8(d)),
                   !.dacc = @ \cup {p}, !.sacc = @ \cup {q},
                   !.panic = @ \/ i \notin DOMAIN st.pix \/ j \notin DOMAIN c.src.Pix]

\* one iteration of drawNRGBASrc, at pixel p
drawNRGBASrcPixel(c, st, p) ==
    LET q == SrcPt(c, p)
        i == PixIdx(c.dst, p.X, p.Y)
        j == PixIdx(c.src, q.X, q.Y)
        s == NRGBAToRGBA(Load(c.src.Pix, j))
    IN  [st EXCEPT !.pix = Store(@, i, Pack8(s)),
                   !.dacc = @ \cup {p}, !.sacc = @ \cup {q},
                   !.panic = @ \/ i \notin DOMAIN st.pix \/ j \notin DOMAIN c.src.Pix]

\* drawGlyphOver's loop body with the 8-bit mask alpha not widened to 16 bits
drawGlyphOverPixelNarrowMask(c, st, p) ==
    LET q == MaskPt(c, p)
        i == PixIdx(c.dst, p.X, p.Y)
        j == PixIdx(c.mask, q.X, q.Y)
        ma == Load(c.mask.Pix, j)[1]
        rgba == Load(st.pix, i)
        a == (m - MulDivM(c.src.C[4], ma)) * 257
        d == [k \in 1 .. 4 |-> MulAddDivM(rgba[k], a, c.src.C[k], ma)]
        st1 == [st EXCEPT !.dacc = @ \cup {p}, !.macc = @ \cup {q},
                          !.panic = @ \/ i \notin DOMAIN st.pix \/ j \notin DOMAIN c.mask.Pix]
    IN  IF ma = 0 THEN st1 ELSE [st1 EXCEPT !.pix = Store(@, i, Pack8(d))]

\* one iteration of drawGlyphOver, at pixel p
drawGlyphOverPixel(c, st, p) ==
    LET q == MaskPt(c, p)
        i == PixIdx(c.dst, p.X, p.Y)
        j == PixIdx(c.mask, q.X, q.Y)
        ma8 == Load(c.mask.Pix, j)[1]
        ma == ma8 * 257
        rgba == Load(st.pix, i)
        a == (m - MulDivM(c.src.C[4], ma)) * 257
        d == [k \in 1 .. 4 |-> MulAddDivM(rgba[k], a, c.src.C[k], ma)]
        st1 == [st EXCEPT !.dacc = @ \cup {p}, !.macc = @ \cup {q},
                          !.panic = @ \/ i \notin DOMAIN st.pix \/ j \notin DOMAIN c.mask.Pix]
    IN  IF ma8 = 0 THEN st1 ELSE [st1 EXCEPT !.pix = Store(@, i, Pack8(d))]

\* one iteration of drawYCbCr, at pixel p
drawYCbCrPixel(c, st, p) ==
    LET q == SrcPt(c, p)
        i == PixIdx(c.dst, p.X, p.Y)
        v == YCbCrSample(c.src, q.X, q.Y)
        rgb == YCbCrToRGB(v[1], v[2], v[3])
    IN  [st EXCEPT !.pix = Store(@, i, << rgb[1], rgb[2], rgb[3], 255 >>),
                   !.dacc = @ \cup {p}, !.sacc = @ \cup {q},
                   !.panic = @ \/ i \notin DOMAIN st.pix
                               \/ (q.Y * c.src.Stride + q.X) \notin DOMAIN c.src.Pix
                               \/ ChromaIdx(c.src, q.X, q.Y) \notin DOMAIN c.src.CPix]

\* the body of the double loop of the routine named path
PixelStep(path, c, st, p) ==
    CASE path = "generic"       -> genericPixel(c, st, p)
      [] path = "drawRGBA"      -> drawRGBAPixel(c, st, p)
      [] path = "drawFillOver"  -> drawFillOverPixel(c, st, p)
      [] path = "drawCopyOver"  -> drawCopyOverPixel(c, st, p)
      [] path = "drawNRGBAOver" -> drawNRGBAOverPixel(c, st, p)
      [] path = "drawNRGBASrc"  -> drawNRGBASrcPixel(c, st, p)
      [] path = "drawGlyphOver" -> drawGlyphOverPixel(c, st, p)
      [] path = "drawYCbCr"     -> drawYCbCrPixel(c, st, p)

\* the double loop: the body at order[k], order[k+1], ...
RECURSIVE Sweep(_, _, _, _, _)
Sweep(path, c, st, order, k) ==
    IF k > Len(order) THEN st
    ELSE CHOOSE res \in { Sweep(path, c, s, order, k + 1) :
                            s \in {PixelStep(path, c, st, order[k])} } : TRUE

\* the whole double loop of the routine named path, from call state st
Loop(path, c, st, order) ==
    CHOOSE res \in { Sweep(path, c0, [s EXCEPT !.path = path], o, 1) :
                        c0 \in {c}, s \in {st}, o \in {order} } : TRUE

\* top-down, left-to-right
Forward(r) == Order(r, r.Min.X, 1, r.Min.Y, 1)
\* bottom-up, right-to-left
Reverse(r) == Order(r, r.Max.X - 1, -1, r.Max.Y - 1, -1)

\* drawCopyOver's test without the comparison of the x co-ordinates
CopyOverForwardRowsOnly(c) == c.r.Min.Y <= c.sp.Y

\* drawCopyOver composes the rows left-to-right, top-down when r.Min is
\* before or at sp, and right-to-left, bottom-up otherwise
CopyOverForward(c) ==
    c.r.Min.Y < c.sp.Y \/ (c.r.Min.Y = c.sp.Y /\ c.r.Min.X <= c.sp.X)

\* the direction of the double loop of the routine named path: 1 forward,
\* -1 backward
LoopDir(path, c) ==
    CASE path \in {"generic", "drawRGBA"} -> IF Backward(c) THEN -1 ELSE 1
      [] path = "drawCopyOver"            -> IF CopyOverForward(c) THEN 1 ELSE -1
      [] OTHER                            -> 1

\* the order in which the double loop of the routine named path visits r
LoopOrder(path, c) == IF LoopDir(path, c) = 1 THEN Forward(c.r) ELSE Reverse(c.r)

\* pix after the built-in copy(pix[d0 : d0+n], from[s0 : s0+n]); the copy
\* handles overlapping slices (every element is read before any is written)
CopySlice(pix, d0, from, s0, n) ==
    CHOOSE res \in { [i \in DOMAIN p |->
                        IF d0 <= i /\ i < d0 + n THEN Load(f, s0 + (i - d0)) ELSE p[i]] :
                     p \in {pix}, f \in {from} } : TRUE

\* the destination points of row y of r
RowPts(r, y) == { Pt(x, y) : x \in r.Min.X .. (r.Max.X - 1) }

\* whether the slice bounds lo:hi are out of range for pix
BadSlice(pix, lo, hi) == lo < 0 \/ hi < lo \/ (hi > lo /\ (hi - 1) \notin DOMAIN pix)

\* fillRows that stops one row early
RECURSIVE fillRowsSkipLast(_, _, _)
fillRowsSkipLast(c, st, y) ==
    IF y >= c.r.Max.Y - 1 THEN st
    ELSE LET i0 == PixIdx(c.dst, c.r.Min.X, y)
             f0 == PixIdx(c.dst, c.r.Min.X, c.r.Min.Y)
             row == [st EXCEPT !.pix = CopySlice(@, i0, st.pix, f0, Dx(c.r)),
                               !.dacc = @ \cup RowPts(c.r, y) \cup RowPts(c.r, c.r.Min.Y),
                               !.panic = @ \/ BadSlice(st.pix, i0, i0 + Dx(c.r))]
         IN  CHOOSE res \in { fillRowsSkipLast(c, s, y + 1) : s \in {row} } : TRUE

\* the rows dy0+1 .. dy1-1 of drawFillSrc: each is copied from the first row
RECURSIVE fillRows(_, _, _)
fillRows(c, st, y) ==
    IF y >= c.r.Max.Y THEN st
    ELSE LET i0 == PixIdx(c.dst, c.r.Min.X, y)
             f0 == PixIdx(c.dst, c.r.Min.X, c.r.Min.Y)
             row == [st EXCEPT !.pix = CopySlice(@, i0, st.pix, f0, Dx(c.r)),
                               !.dacc = @ \cup RowPts(c.r, y) \cup RowPts(c.r, c.r.Min.Y),
                               !.panic = @ \/ BadSlice(st.pix, i0, i0 + Dx(c.r))]
         IN  CHOOSE res \in { fillRows(c, s, y + 1) : s \in {row} } : TRUE

\* drawFillSrc whose first row runs one pixel too far
drawFillSrcOffByOne(c, st) ==
    IF Dy(c.r) < 1 THEN [st EXCEPT !.path = "drawFillSrc"]
    ELSE LET color == Pack8(c.src.C)
             i0 == PixIdx(c.dst, c.r.Min.X, c.r.Min.Y)
             i1 == PixIdx(c.dst, c.r.Max.X, c.r.Min.Y)
             first == [st EXCEPT !.path = "drawFillSrc",
                                 !.pix = [i \in DOMAIN @ |->
                                            IF i0 <= i /\ i <= i1 THEN color ELSE @[i]],
                                 !.dacc = @ \cup RowPts(c.r, c.r.Min.Y),
                                 !.panic = @ \/ BadSlice(st.pix, i0, i1)]
         IN  CHOOSE res \in { fillRows(c0, s, c0.r.Min.Y + 1) :
                                c0 \in {c}, s \in {first} } : TRUE

drawFillSrc(c, st) ==
    IF Dy(c.r) < 1 THEN [st EXCEPT !.path = "drawFillSrc"]
    ELSE LET color == Pack8(c.src.C)
             i0 == PixIdx(c.dst, c.r.Min.X, c.r.Min.Y)
             i1 == PixIdx(c.dst, c.r.Max.X, c.r.Min.Y)
             first == [st EXCEPT !.path = "drawFillSrc",
                                 !.pix = [i \in DOMAIN @ |->
                                            IF i0 <= i /\ i < i1 THEN color ELSE @[i]],
                                 !.dacc = @ \cup RowPts(c.r, c.r.Min.Y),
                                 !.panic = @ \/ BadSlice(st.pix, i0, i1)]
         IN  CHOOSE res \in { fillRows(c0, s, c0.r.Min.Y + 1) :
                                c0 \in {c}, s \in {first} } : TRUE

\* drawCopySrc that always composes the rows top-down
CopySrcAlwaysTopDown(c) == TRUE

\* drawCopySrc composes the rows top-down when r.Min.Y <= sp.Y, bottom-up
\* otherwise
CopySrcTopDown(c) == c.r.Min.Y <= c.sp.Y

\* the rows of drawCopySrc, nrows of them still to copy, the next one being
\* row y of dst
RECURSIVE copyRows(_, _, _, _, _)
copyRows(c, st, y, delta, nrows) ==
    IF nrows <= 0 THEN st
    ELSE LET sy == c.sp.Y + y - c.r.Min.Y
             d0 == PixIdx(c.dst, c.r.Min.X, y)
             s0 == PixIdx(c.src, c.sp.X, sy)
             n == Dx(c.r)
             row == [st EXCEPT !.pix = CopySlice(@, d0, SrcPix(c, st), s0, n),
                               !.dacc = @ \cup RowPts(c.r, y),
                               !.sacc = @ \cup { SrcPt(c, p) : p \in RowPts(c.r, y) },
                               !.stale = @ \/ (c.src.alias /\
                                   \E p \in RowPts(c.r, y) : SrcPt(c, p) \in st.dacc),
                               !.panic = @ \/ BadSlice(st.pix, d0, d0 + n)
                                           \/ BadSlice(SrcPix(c, st), s0, s0 + n)]
         IN  CHOOSE res \in { copyRows(c, s, y + delta, delta, nrows - 1) :
                                s \in {row} } : TRUE

drawCopySrc(c, st) ==
    CHOOSE res \in
        { IF CopySrcTopDown(c0)
          THEN copyRows(c0, [s EXCEPT !.path = "drawCopySrc", !.dir = 1],
                        c0.r.Min.Y, 1, Dy(c0.r))
          ELSE copyRows(c0, [s EXCEPT !.path = "drawCopySrc", !.dir = -1],
                        c0.r.Max.Y - 1, -1, Dy(c0.r)) :
          c0 \in {c}, s \in {st} } : TRUE

\* ------------------------------------------------------------------------
\* DrawMask and Draw
\* ------------------------------------------------------------------------

\* the fast path DrawMask takes for an *image.RGBA destination, "drawRGBA"
\* if none of the special cases applies
FastPath(c) ==
    IF c.op = Over
    THEN IF c.mask.kind = "nil"
         THEN CASE c.src.kind = "ColorImage" -> "drawFillOver"
                [] c.src.kind = "RGBA"       -> "drawCopyOver"
                [] c.src.kind = "NRGBA"      -> "drawNRGBAOver"
                [] c.src.kind = "YCbCr"      -> "drawYCbCr"
                [] OTHER                     -> "drawRGBA"
         ELSE IF c.mask.kind = "Alpha" /\ c.src.kind = "ColorImage"
              THEN "drawGlyphOver"
              ELSE "drawRGBA"
    ELSE IF c.mask.kind = "nil"
         THEN CASE c.src.kind = "ColorImage" -> "drawFillSrc"
                [] c.src.kind = "RGBA"       -> "drawCopySrc"
                [] c.src.kind = "NRGBA"      -> "drawNRGBASrc"
                [] c.src.kind = "YCbCr"      -> "drawYCbCr"
                [] OTHER                     -> "drawRGBA"
         ELSE "drawRGBA"

\* whether a loop of the routine named path, whose exit test is !=, steps
\* past its end value on rectangle r: the row loop (y != y1) when the height
\* is negative, the column loop (x != x1, i != i1) when a row is entered and
\* the width is negative.  drawFillSrc and drawCopySrc test with < and >.
RunsAway(path, r) ==
    CASE path \in {"drawFillSrc", "drawCopySrc"} -> FALSE
      [] path = "drawCopyOver" -> Dy(r) > 0 /\ Dx(r) < 0
      [] OTHER -> Dy(r) < 0 \/ (Dy(r) > 0 /\ Dx(r) < 0)

\* the routine named path, run on context c from call state st: the two
\* row-copying routines, or a double loop over the pixels of r
Run(path, c, st) ==
    CASE path = "drawFillSrc" -> drawFillSrc(c, st)
      [] path = "drawCopySrc" -> drawCopySrc(c, st)
      [] RunsAway(path, c.r) -> [st EXCEPT !.path = path, !.hang = TRUE]
      [] OTHER -> Loop(path, c, [st EXCEPT !.dir = LoopDir(path, c)], LoopOrder(path, c))

\* DrawMask without the test of the destination's type
PathAnyDst(c) == FastPath(c)

\* the routine DrawMask runs on the clipped arguments: a fast path or
\* drawRGBA for an *image.RGBA destination, the generic loop otherwise
Path(c) == IF c.dst.kind = "RGBA" THEN FastPath(c) ELSE "generic"

\* the context of a call: the arguments after clip
Context(dst, r, src, sp, mask, mp, op) ==
    LET cl == clip(dst, r, src, sp, mask, mp)
    IN  [dst |-> dst, r |-> cl.r, src |-> src, sp |-> cl.sp,
         mask |-> mask, mp |-> cl.mp, op |-> op]

\* DrawMask without the test of r.Empty() after clip
DrawMaskNoEmptyTest(dst, r, src, sp, mask, mp, op) ==
    CHOOSE res \in
        { Run(Path(c), c, Start(dst)) :
          c \in {Context(dst, r, src, sp, mask, mp, op)} } : TRUE

\* DrawMask aligns r.Min in dst with sp in src and mp in mask and then
\* replaces the rectangle r in dst with the result of a Porter-Duff
\* composition.  A nil mask is treated as opaque.  The result is the state
\* of the call when it returns.
DrawMask(dst, r, src, sp, mask, mp, op) ==
    CHOOSE res \in
        { IF Empty(c.r) THEN Start(dst) ELSE Run(Path(c), c, Start(dst)) :
          c \in {Context(dst, r, src, sp, mask, mp, op)} } : TRUE

\* the nil mask
NilMask == [kind |-> "nil", Rect |-> Rect(0, 0, 0, 0), Stride |-> 0, Pix |-> << >>,
            alias |-> FALSE]

\* Draw that passes the Src op
DrawWithSrc(dst, r, src, sp) == DrawMask(dst, r, src, sp, NilMask, ZP, Src)

\* Draw calls DrawMask with a nil mask and an Over op.
Draw(dst, r, src, sp) == DrawMask(dst, r, src, sp, NilMask, ZP, Over)

\* ------------------------------------------------------------------------
\* The images and arguments the calls are made with
\* ------------------------------------------------------------------------

Idx == 0 .. (DstW * DstH - 1)
Full == Rect(0, 0, DstW, DstH)

MkImage(kind, rect, pix) ==
    [kind |-> kind, Rect |-> rect, Stride |-> DstW, Pix |-> pix, alias |-> FALSE]

\* alpha-premultiplied 8-bit colours (R, G, B <= A)
P8 == << <<0, 0, 0, 0>>, <<255, 0, 0, 255>>, <<0, 0, 255, 255>>, <<10, 20, 30, 128>>,
         <<200, 100, 50, 200>>, <<1, 1, 1, 1>>, <<255, 255, 255, 255>> >>

\* alpha-premultiplied 16-bit colours
P16 == << <<0, 0, 0, 0>>, <<65535, 0, 0, 65535>>, <<0, 0, 65535, 65535>>,
          <<4660, 1383, 0, 32768>>, <<300, 200, 100, 40000>>, <<1, 2, 3, 4>>,
          <<65535, 65535, 65535, 65535>> >>

\* non-premultiplied 8-bit colours
PN == << <<255, 0, 0, 255>>, <<200, 100, 50, 0>>, <<10, 20, 30, 128>>,
         <<255, 255, 255, 1>>, <<0, 255, 7, 254>>, <<90, 80, 70, 60>>,
         <<255, 128, 0, 127>> >>

\* 8-bit and 16-bit coverage values
PA8 == << <<0>>, <<255>>, <<128>>, <<1>>, <<254>> >>
PA16 == << <<0>>, <<65535>>, <<32768>>, <<1>>, <<65534>> >>

\* neighbouring pixels get different colours
Pat(pal, i) == pal[(i % Len(pal)) + 1]

Red == <<65535, 0, 0, 65535>>
Semi == <<4660, 1383, 0, 32768>>

ColorImage(c) ==
    [kind |-> "ColorImage", Rect |-> Rect(0, 0, 0, 0), Stride |-> 0, Pix |-> << >>,
     alias |-> FALSE, C |-> c]

YCbCr(ratio) ==
    [kind |-> "YCbCr", Rect |-> Full, Stride |-> DstW,
     Pix |-> [i \in Idx |-> << (i * 37 + 16) % 256 >>],
     CPix |-> [i \in Idx |-> << (i * 53 + 90) % 256, (i * 91 + 20) % 256 >>],
     CStride |-> IF ratio = "444" THEN DstW ELSE (DstW + 1) \div 2,
     Ratio |-> ratio, alias |-> FALSE]

\* src is dst itself
Self == [kind |-> "self", Rect |-> Full, Stride |-> DstW, Pix |-> << >>, alias |-> TRUE]

DstImages ==
    { MkImage("RGBA", Full, [i \in Idx |-> Pat(P8, i)]),
      MkImage("RGBA64", Full, [i \in Idx |-> Pat(P16, i)]) }

\* a fully transparent destination
ClearRGBA == MkImage("RGBA", Full, [i \in Idx |-> zeroColor])

\* destinations filled with opaque blue
Blue == <<0, 0, 65535, 65535>>
BlueRGBA == MkImage("RGBA", Full, [i \in Idx |-> <<0, 0, 255, 255>>])
BlueRGBA64 == MkImage("RGBA64", Full, [i \in Idx |-> Blue])

SrcImages ==
    { ColorImage(Red), ColorImage(zeroColor), ColorImage(Semi),
      MkImage("RGBA", Rect(1, 0, DstW, DstH - 1), [i \in Idx |-> Pat(P8, i + 3)]),
      MkImage("RGBA", Full, [i \in Idx |-> zeroColor]),
      MkImage("NRGBA", Rect(0, 1, DstW, DstH), [i \in Idx |-> Pat(PN, i)]),
      MkImage("NRGBA", Full, [i \in Idx |-> <<200, 100, 50, 0>>]),
      MkImage("RGBA64", Rect(0, 0, DstW - 1, DstH), [i \in Idx |-> Pat(P16, i + 2)]),
      MkImage("RGBA64", Full, [i \in Idx |-> zeroColor]),
      YCbCr("444"), YCbCr("422"), YCbCr("420"),
      Self }

\* masks whose coverage is the maximum at every coordinate: an Alpha and an
\* Alpha16 image with the destination's bounds, and a ColorImage
OpaqueMasks ==
    { MkImage("Alpha", Full, [i \in Idx |-> <<255>>]),
      MkImage("Alpha16", Full, [i \in Idx |-> <<65535>>]),
      ColorImage(<<65535, 65535, 65535, 65535>>) }

MaskImages ==
    { NilMask,
      MkImage("Alpha", Rect(0, 0, DstW, DstH - 1), [i \in Idx |-> Pat(PA8, i)]),
      MkImage("Alpha16", Rect(1, 0, DstW, DstH), [i \in Idx |-> Pat(PA16, i)]) }

\* the rectangles drawn into: inside, whole, partly outside, larger than and
\* disjoint from the destination, empty and inverted
Rects ==
    { Rect(1, 0, DstW, DstH - 1), Rect(1, 1, 3, 3), Full,
      Rect(-1, -1, 2, 2), Rect(-1, -1, DstW + 1, DstH + 1),
      Rect(DstW + 1, DstH + 1, DstW + 3, DstH + 3), Rect(1, 1, 1, 1), Rect(3, 3, 1, 1) }

\* sp is r.Min moved by at most one pixel on each axis, in every direction
Shifts == { Pt(x, y) : x \in -1 .. 1, y \in -1 .. 1 }

\* ------------------------------------------------------------------------
\* package io: the synchronous in-memory pipe.
\* A state s of the pipe and its users is [p, g, h]: p the pipe structure
\* (rl, wl: the goroutine holding the mutex, or "free"; data with avail for
\* data != nil; rwait, wwait: the goroutines waiting on the condition
\* variable; rerr, werr), g the goroutines (pc, the arguments and the
\* results of their call), h the history of bytes delivered and writes
\* admitted.  The mutex l is held from Lock to Wait or return, which is one
\* step of the goroutine; a goroutine woken from Wait takes l again in its
\* next step.
\* ------------------------------------------------------------------------

NoErr == "nil"
EOF == "os.EOF"
EPIPE == "os.EPIPE"
EINVAL == "os.EINVAL"
\* errors the callers pass to CloseWithError
ErrR == "reader's error"
ErrW == "writer's error"

Readers == {"r1", "r2"}
Writers == {"w1", "w2"}

\* Pipe(): p := new(pipe)
NewPipe ==
    [rl |-> "free", wl |-> "free", data |-> << >>, avail |-> FALSE,
     rwait |-> {}, wwait |-> {}, rerr |-> NoErr, werr |-> NoErr]

\* a goroutine that has made no call yet
NewGoroutine ==
    [pc |-> "idle", buf |-> 0, b |-> << >>, n |-> 0, err |-> NoErr, got |-> << >>,
     calls |-> 0, late |-> FALSE, done |-> -1]

NewHistory == [delivered |-> << >>, admitted |-> << >>]

\* sync.Cond.Signal: wakes one goroutine waiting on the condition variable
\* q, if there is any; it runs again once it has taken l
Signal(s, q) ==
    IF s.p[q] = {} THEN s
    ELSE LET t == CHOOSE x \in s.p[q] : TRUE
         IN  [s EXCEPT !.p[q] = @ \ {t},
                       !.g[t].pc = IF q = "rwait" THEN "rloop" ELSE "wloop"]

\* sync.Cond.Wait: the goroutine releases l and waits on q
Wait(s, t, q) ==
    [s EXCEPT !.p[q] = @ \cup {t}, !.g[t].pc = q]

\* pipe.read returns n, err with got the bytes copied into the caller's
\* slice; the deferred Unlocks release l and rl
readReturn(s, t, n, err, got) ==
    [s EXCEPT !.p.rl = "free", !.g[t].pc = "idle", !.g[t].n = n, !.g[t].err = err,
              !.g[t].got = got, !.h.delivered = @ \o got]

\* the end of pipe.read with the data slice left as it was
readCopyKeepsData(s, t) ==
    LET n == Min2(s.g[t].buf, Len(s.p.data))
    IN  readReturn(s, t, n, NoErr, SubSeq(s.p.data, 1, n))

\* the end of pipe.read: n = copy(b, p.data); p.data = p.data[n:]; when no
\* data is left, p.data = nil and the writer is signalled
readCopy(s, t) ==
    LET n == Min2(s.g[t].buf, Len(s.p.data))
        rest == SubSeq(s.p.data, n + 1, Len(s.p.data))
        s1 == [s EXCEPT !.p.data = rest]
        s2 == IF Len(rest) = 0 THEN Signal([s1 EXCEPT !.p.avail = FALSE], "wwait") ELSE s1
    IN  readReturn(s2, t, n, NoErr, SubSeq(s.p.data, 1, n))

\* one pass of the for loop of pipe.read, with l held, and what follows it
read(s, t) ==
    IF s.p.rerr # NoErr THEN readReturn(s, t, 0, EINVAL, << >>)
    ELSE IF s.p.avail THEN readCopy(s, t)
    ELSE IF s.p.werr # NoErr THEN readReturn(s, t, 0, s.p.werr, << >>)
    ELSE Wait(s, t, "rwait")

\* pipe.write returns: n = len(b) - len(p.data); p.data = nil; the deferred
\* Unlocks release l and wl
writeReturn(s, t, err) ==
    [s EXCEPT !.p.wl = "free", !.p.data = << >>, !.p.avail = FALSE,
              !.g[t].pc = "idle", !.g[t].n = Len(s.g[t].b) - Len(s.p.data),
              !.g[t].err = err,
              !.h.admitted[Len(s.h.admitted)].n = Len(s.g[t].b) - Len(s.p.data)]

\* the for loop of pipe.write that does not wait for the readers
writeLoopNoWait(s, t) == writeReturn(s, t, s.g[t].err)

\* the for loop of pipe.write that answers a closed read end with os.EINVAL
writeLoopRerrAsEINVAL(s, t) ==
    IF ~s.p.avail THEN writeReturn(s, t, s.g[t].err)
    ELSE IF s.p.rerr # NoErr THEN writeReturn(s, t, EINVAL)
    ELSE Wait([s EXCEPT !.g[t].err = IF s.p.werr # NoErr THEN EINVAL ELSE @], t, "wwait")

\* one pass of the for loop of pipe.write, with l held, and what follows it
writeLoop(s, t) ==
    IF ~s.p.avail THEN writeReturn(s, t, s.g[t].err)
    ELSE IF s.p.rerr # NoErr THEN writeReturn(s, t, s.p.rerr)
    ELSE Wait([s EXCEPT !.g[t].err = IF s.p.werr # NoErr THEN EINVAL ELSE @], t, "wwait")

\* pipe.write after wl is taken: p.data = b (never nil: a nil b is replaced
\* by zero[:]), p.rwait.Signal(), then the loop
write(s, t) ==
    writeLoop(Signal([s EXCEPT !.p.data = s.g[t].b, !.p.avail = TRUE,
                               !.h.admitted = Append(@, [w |-> t, b |-> s.g[t].b, n |-> -1])],
                     "rwait"), t)

\* pipe.rclose that wakes nobody
rcloseNoSignal(s, err) ==
    [s EXCEPT !.p.rerr = IF err = NoErr THEN EPIPE ELSE err]

\* pipe.rclose
rclose(s, err) ==
    Signal(Signal([s EXCEPT !.p.rerr = IF err = NoErr THEN EPIPE ELSE err], "rwait"),
           "wwait")

\* pipe.wclose
wclose(s, err) ==
    Signal(Signal([s EXCEPT !.p.werr = IF err = NoErr THEN EOF ELSE err], "rwait"),
           "wwait")

\* ------------------------------------------------------------------------
\* The state machine: a caller that owns a destination, a source and a mask
\* and calls DrawMask or Draw, then possibly the same call again.
\* ------------------------------------------------------------------------

VARIABLES
    dst,    \* the destination image
    src,    \* the source image (Self: the destination itself)
    mask,   \* the mask image (NilMask: none)
    pc,     \* "idle", "called" (one call returned), "repeated" (the same call again)
    args,   \* the arguments of the last call
    cl,     \* r, sp and mp of the last call after clip
    prev,   \* the destination's pixels before the last call
    acc     \* what the last call did: coordinates accessed, panic, dir, path

\* two DrawMask calls running concurrently, one per goroutine
VARIABLES
    bufs,   \* the pixel storage of each goroutine's destination
    calls,  \* the arguments of each goroutine's DrawMask call
    at,     \* where each call is: the pixel of its loop and "read" or "write"
    out     \* the pixel value a call has computed and not yet stored

\* a pipe and the goroutines that read from it, write to it and close it
VARIABLES
    pipe,    \* the pipe structure
    gor,    \* the goroutines: where each is in its call, its arguments and results
    hist    \* the bytes the Reads returned and the Writes admitted, in order

drawVars == << dst, src, mask, pc, args, cl, prev, acc >>
concVars == << bufs, calls, at, out >>
pipeVars == << pipe, gor, hist >>
vars == << drawVars, concVars, pipeVars >>

\* a new pipe that no goroutine has used yet
PipeIdle ==
    /\ pipe = NewPipe
    /\ gor = [t \in Readers \cup Writers |-> NewGoroutine]
    /\ hist = NewHistory

\* no concurrent calls are running
ConcIdle == bufs = << >> /\ calls = << >> /\ at = << >> /\ out = << >>

\* the source as the call sees it
Source(d) == IF src.alias THEN [d EXCEPT !.alias = TRUE] ELSE src

NoArgs == [fn |-> "none", r |-> Rect(0, 0, 0, 0), sp |-> ZP, mp |-> ZP, op |-> Over,
           mask |-> NilMask]

Log(st) == [dacc |-> st.dacc, sacc |-> st.sacc, macc |-> st.macc, panic |-> st.panic,
            dir |-> st.dir, path |-> st.path, hang |-> st.hang, stale |-> st.stale]

Init ==
    /\ \/ dst \in DstImages /\ src \in SrcImages /\ mask \in MaskImages
       \/ dst \in {ClearRGBA, BlueRGBA, BlueRGBA64} /\ src = ColorImage(Red) /\ mask = NilMask
    /\ pc = "idle"
    /\ args = NoArgs
    /\ cl = [r |-> Rect(0, 0, 0, 0), sp |-> ZP, mp |-> ZP]
    /\ prev = dst.Pix
    /\ acc = Log(Start(dst))
    /\ ConcIdle
    /\ PipeIdle

\* the effect of the call a on the variables
Apply(a) ==
    \E st \in { IF a.fn = "Draw"
                THEN Draw(dst, a.r, Source(dst), a.sp)
                ELSE DrawMask(dst, a.r, Source(dst), a.sp, a.mask, a.mp, a.op) } :
        /\ dst' = [dst EXCEPT !.Pix = st.pix]
        /\ prev' = dst.Pix
        /\ args' = a
        /\ cl' = clip(dst, a.r, Source(dst), a.sp, a.mask, a.mp)
        /\ acc' = Log(st)
        /\ UNCHANGED << src, mask, concVars, pipeVars >>

CallDrawMask ==
    /\ pc = "idle"
    /\ \E r \in Rects, s \in Shifts, op \in Op :
         \E mp \in (IF mask.kind = "nil" THEN {ZP} ELSE {Pt(r.Min.X + 1, r.Min.Y)}) :
            Apply([fn |-> "DrawMask", r |-> r, sp |-> PtAdd(r.Min, s), mp |-> mp,
                   op |-> op, mask |-> mask])
    /\ pc' = "called"

CallDraw ==
    /\ pc = "idle"
    /\ mask.kind = "nil"
    /\ \E r \in Rects, s \in Shifts :
            Apply([fn |-> "Draw", r |-> r, sp |-> PtAdd(r.Min, s), mp |-> ZP,
                   op |-> Over, mask |-> NilMask])
    /\ pc' = "called"

\* the same call once more, with identical arguments
Repeat ==
    /\ pc = "called"
    /\ Apply(args)
    /\ pc' = "repeated"

Next == CallDrawMask \/ CallDraw \/ Repeat

Spec == Init /\ [][Next]_vars

\* ------------------------------------------------------------------------
\* Two goroutines, each in one DrawMask call on a destination of its own.
\* A step of a call is the read half of one loop iteration (mask.At,
\* src.At, dst.At and the arithmetic) or its write half (dst.Set, the slice
\* store); the steps of the two calls interleave freely.
\* ------------------------------------------------------------------------

Goroutines == {"A", "B"}
Other(t) == IF t = "A" THEN "B" ELSE "A"

\* the destinations before the calls
Bufs0 ==
    [t \in Goroutines |->
        IF t = "A" THEN [i \in Idx |-> Pat(P16, i)] ELSE [i \in Idx |-> Pat(P8, i + 1)]]

\* the calls made: A draws into an RGBA64 image from an image of its own or
\* from B's destination, B draws into an RGBA image from an image of its own
ConcCalls ==
    { [t \in Goroutines |->
         IF t = "A"
         THEN [kind |-> "RGBA64", r |-> r, sp |-> r.Min, mp |-> r.Min, op |-> op,
               mask |-> mk, shared |-> sh,
               src |-> MkImage("RGBA64", Full, [i \in Idx |-> Pat(P16, i + 2)])]
         ELSE [kind |-> "RGBA", r |-> Rect(1, 0, 3, 2), sp |-> ZP, mp |-> ZP, op |-> op,
               mask |-> NilMask, shared |-> FALSE,
               src |-> MkImage("NRGBA", Full, [i \in Idx |-> Pat(PN, i)])]] :
      r \in {Rect(0, 1, DstW, 2), Rect(1, 1, 3, 3)}, op \in Op, sh \in BOOLEAN,
      mk \in {NilMask, MkImage("Alpha", Full, [i \in Idx |-> Pat(PA8, i)])} }

\* the destination of goroutine t's call when the buffers hold b
DstOf(t, b) == MkImage(calls[t].kind, Full, b[t])

\* the source of goroutine t's call: its own image, or the other
\* goroutine's destination
SrcOf(t, b) == IF calls[t].shared THEN DstOf(Other(t), b) ELSE calls[t].src

\* the arguments of goroutine t's call after clip
CallContext(t, b) ==
    Context(DstOf(t, b), calls[t].r, SrcOf(t, b), calls[t].sp, calls[t].mask,
            calls[t].mp, calls[t].op)

\* the pixels goroutine t's call visits, in order
Todo(t) ==
    LET c == CallContext(t, bufs)
    IN  IF Empty(c.r) THEN << >> ELSE LoopOrder(Path(c), c)

\* a single out value shared by all calls
OutShared(t) == "A"

\* the variable that holds a call's computed pixel until it is stored: a
\* local of the call (var out, dr, dg, db, da), one per goroutine
OutOf(t) == t

\* no Draw or DrawMask call has been made
DrawIdle ==
    /\ dst = ClearRGBA /\ src = ColorImage(Red) /\ mask = NilMask
    /\ pc = "idle"
    /\ args = NoArgs
    /\ cl = [r |-> Rect(0, 0, 0, 0), sp |-> ZP, mp |-> ZP]
    /\ prev = dst.Pix
    /\ acc = Log(Start(dst))

ConcInit ==
    /\ DrawIdle
    /\ PipeIdle
    /\ bufs = Bufs0
    /\ calls \in ConcCalls
    /\ at = [t \in Goroutines |-> [k |-> 1, phase |-> "read"]]
    /\ out = [t \in Goroutines |-> Bufs0[t]]

\* the read half of the loop iteration of goroutine t's call
ReadPixel(t) ==
    /\ at[t].phase = "read"
    /\ at[t].k <= Len(Todo(t))
    /\ \E c \in {CallContext(t, bufs)} :
          out' = [out EXCEPT ![OutOf(t)] =
                    PixelStep(Path(c), c, Start(DstOf(t, bufs)), Todo(t)[at[t].k]).pix]
    /\ at' = [at EXCEPT ![t].phase = "write"]
    /\ UNCHANGED << bufs, calls, drawVars, pipeVars >>

\* the write half of the loop iteration of goroutine t's call
WritePixel(t) ==
    /\ at[t].phase = "write"
    /\ bufs' = [bufs EXCEPT ![t] = out[OutOf(t)]]
    /\ at' = [at EXCEPT ![t] = [k |-> @.k + 1, phase |-> "read"]]
    /\ UNCHANGED << out, calls, drawVars, pipeVars >>

ConcNext == \E t \in Goroutines : ReadPixel(t) \/ WritePixel(t)

ConcSpec == ConcInit /\ [][ConcNext]_vars

\* ------------------------------------------------------------------------
\* The pipe's state machine: two readers and two writers call Read and
\* Write, and either end is closed at any time.
\* ------------------------------------------------------------------------

\* the pipe, the goroutines and the history as one state
S == [p |-> pipe, g |-> gor, h |-> hist]

\* the variables become the state s
Become(s) ==
    /\ pipe' = s.p
    /\ gor' = s.g
    /\ hist' = s.h
    /\ UNCHANGED << drawVars, concVars >>

PipeInit == DrawIdle /\ ConcIdle /\ PipeIdle

\* PipeReader.Read(data) with len(data) = len is called; the call is late
\* when the write end was closed before
Read(t, len) ==
    /\ gor[t].pc = "idle"
    /\ gor[t].calls < MaxCalls
    /\ Become([S EXCEPT !.g[t] = [NewGoroutine EXCEPT !.pc = "rl", !.buf = len,
                                     !.calls = gor[t].calls + 1,
                                     !.late = (pipe.werr # NoErr)]])

\* pipe.rl.Lock() in pipe.read
ReadLock(t) ==
    /\ gor[t].pc = "rl"
    /\ pipe.rl = "free"
    /\ Become([S EXCEPT !.p.rl = t, !.g[t].pc = "rloop"])

\* pipe.read with l: the loop until it returns or waits
ReadLoop(t) ==
    /\ gor[t].pc = "rloop"
    /\ Become(read(S, t))

\* PipeWriter.Write(data) with len(data) = len is called; the bytes of each
\* call are its own.  The call is late when the read end was closed before.
Write(t, len) ==
    /\ gor[t].pc = "idle"
    /\ gor[t].calls < MaxCalls
    /\ Become([S EXCEPT !.g[t] = [NewGoroutine EXCEPT !.pc = "wl",
                                     !.b = [i \in 1 .. len |-> << t, gor[t].calls + 1, i >>],
                                     !.calls = gor[t].calls + 1,
                                     !.late = (pipe.rerr # NoErr)]])

\* pipe.wl.Lock() in pipe.write
WriteLock(t) ==
    /\ gor[t].pc = "wl"
    /\ pipe.wl = "free"
    /\ Become([S EXCEPT !.p.wl = t, !.g[t].pc = "wstart"])

\* pipe.write with l for the first time: the data is handed over, then the
\* loop until it returns or waits
WriteStart(t) ==
    /\ gor[t].pc = "wstart"
    /\ Become(write(S, t))

\* pipe.write with l again after Wait: the loop until it returns or waits
WriteLoop(t) ==
    /\ gor[t].pc = "wloop"
    /\ Become(writeLoop(S, t))

\* the Writes that are held up when the reader closes (queued for p.wl, or
\* with their data in the pipe and not all of it consumed) note how many of
\* their bytes have been consumed
NoteDone(s) ==
    [s EXCEPT !.g = [t \in DOMAIN s.g |->
        CASE s.g[t].pc \in {"wwait", "wloop"} /\ s.p.avail ->
                 [s.g[t] EXCEPT !.done = Len(s.g[t].b) - Len(s.p.data)]
          [] s.g[t].pc \in {"wl", "wstart"} -> [s.g[t] EXCEPT !.done = 0]
          [] OTHER -> s.g[t]]]

\* PipeReader.Close() (err = nil) and PipeReader.CloseWithError(err); the
\* read end is closed once
ReaderClose(err) ==
    /\ pipe.rerr = NoErr
    /\ Become(rclose(NoteDone(S), err))

\* PipeWriter.Close() (err = nil) and PipeWriter.CloseWithError(err); the
\* write end is closed once
WriterClose(err) ==
    /\ pipe.werr = NoErr
    /\ Become(wclose(S, err))

\* the lengths of the slices each goroutine reads into or writes: r1 reads
\* byte by byte and r2 whole writes, w1 writes long slices and w2 short
\* ones, the empty (nil) slice among them
Lens(t) ==
    CASE t = "r1" -> {1}
      [] t = "r2" -> {MaxLen}
      [] t = "w1" -> {MaxLen}
      [] t = "w2" -> {0, 1}

PipeNext ==
    \/ \E t \in Readers : \/ \E len \in Lens(t) : Read(t, len)
                           \/ ReadLock(t)
                           \/ ReadLoop(t)
    \/ \E t \in Writers : \/ \E len \in Lens(t) : Write(t, len)
                           \/ WriteLock(t)
                           \/ WriteStart(t)
                           \/ WriteLoop(t)
    \/ \E err \in {NoErr, ErrR} : ReaderClose(err)
    \/ \E err \in {NoErr, ErrW} : WriterClose(err)

PipeSpec == PipeInit /\ [][PipeNext]_vars

\* The scheduler runs every goroutine that can run: one that can take its
\* gate, or that holds l or was woken by a Signal, takes its next step.
\* Whether a caller ever calls Read, Write or Close is up to the caller.
PipeFair ==
    /\ \A t \in Readers : WF_vars(ReadLock(t)) /\ WF_vars(ReadLoop(t))
    /\ \A t \in Writers : WF_vars(WriteLock(t)) /\ WF_vars(WriteStart(t)) /\ WF_vars(WriteLoop(t))

PipeLive == PipeInit /\ [][PipeNext]_vars /\ PipeFair

\* ------------------------------------------------------------------------
\* One pixel composed by one DrawMask call, for channel values at the ends
\* and in the middle of the 8-bit and 16-bit ranges
\* ------------------------------------------------------------------------

\* 8-bit and 16-bit channel values
V8 == {0, 1, 127, 128, 254, 255}
V16 == {0, 1, 257, 32768, 65534, 65535}

\* alpha-premultiplied colours over the values V: a channel below or at the
\* alpha, a channel equal to the alpha and a zero channel
Premul(V) == { << q[1], q[2], 0, q[2] >> : q \in { v \in V \X V : v[1] <= v[2] } }

\* non-premultiplied 8-bit colours: the channels do not depend on the alpha
NonPremul8 == { << x, 255, 0, a >> : x \in V8, a \in V8 }

\* an image of one pixel at (0, 0)
OnePixel(kind, v) ==
    [kind |-> kind, Rect |-> Rect(0, 0, 1, 1), Stride |-> 1, Pix |-> [i \in {0} |-> v],
     alias |-> FALSE]

PixelDst ==
    { OnePixel("RGBA", v) : v \in Premul(V8) } \cup { OnePixel("RGBA64", v) : v \in Premul(V16) }

PixelSrc ==
    { ColorImage(v) : v \in Premul(V16) } \cup { OnePixel("RGBA", v) : v \in Premul(V8) }
        \cup { OnePixel("RGBA64", v) : v \in Premul(V16) }
        \cup { OnePixel("NRGBA", v) : v \in NonPremul8 }

PixelMask ==
    {NilMask} \cup { OnePixel("Alpha", << v >>) : v \in V8 }
        \cup { OnePixel("Alpha16", << v >>) : v \in V16 }

PixelInit ==
    /\ dst \in PixelDst /\ src \in PixelSrc /\ mask \in PixelMask
    /\ pc = "idle"
    /\ args = NoArgs
    /\ cl = [r |-> Rect(0, 0, 0, 0), sp |-> ZP, mp |-> ZP]
    /\ prev = dst.Pix
    /\ acc = Log(Start(dst))
    /\ ConcIdle
    /\ PipeIdle

\* DrawMask(dst, dst.Bounds(), src, image.ZP, mask, image.ZP, op)
ComposePixel ==
    /\ pc = "idle"
    /\ \E op \in Op :
          Apply([fn |-> "DrawMask", r |-> Rect(0, 0, 1, 1), sp |-> ZP, mp |-> ZP,
                 op |-> op, mask |-> mask])
    /\ pc' = "called"

PixelNext == ComposePixel

PixelSpec == PixelInit /\ [][PixelNext]_vars

\* ------------------------------------------------------------------------
\* Properties
\* ------------------------------------------------------------------------

\* a call has returned; args, cl, prev and acc describe it
Called == pc \in {"called", "repeated"}

\* the destination as it was before the last call, and the source then
Before == [dst EXCEPT !.Pix = prev]
SourceBefore == Source(Before)

\* the destination's contents copied to a separate temporary buffer
TempCopy == [Before EXCEPT !.alias = FALSE]

\* the pixel of dst stored at index i
PtOf(i) == Pt(i % dst.Stride, i \div dst.Stride)

\* C1 (clipping safety): in every DrawMask call, whatever r, sp and mp are,
\* every destination coordinate read or written lies in dst.Bounds() (and in
\* the clipped r), every source coordinate read lies in src.Bounds() and is
\* sp' + p - r'.Min for a pixel p of the clipped r, every mask coordinate
\* read lies in mask.Bounds(), and no slice index is out of range.
C1_ClipSafety ==
    Called =>
        /\ \A p \in acc.dacc : Contains(Bounds(dst), p) /\ Contains(cl.r, p)
        /\ \A q \in acc.sacc :
              /\ Contains(Bounds(SourceBefore), q)
              /\ Contains(cl.r, PtAdd(PtSub(q, cl.sp), cl.r.Min))
        /\ \A q \in acc.macc :
              /\ Contains(Bounds(args.mask), q)
              /\ Contains(cl.r, PtAdd(PtSub(q, cl.mp), cl.r.Min))
        /\ ~acc.panic

\* a call with a mask whose r sticks out of the destination has read and
\* written pixels
C1_Witness ==
    /\ Called /\ args.mask.kind # "nil"
    /\ ~Contains(Bounds(dst), args.r.Min) /\ cl.r # args.r
    /\ acc.dacc # {} /\ acc.sacc # {} /\ acc.macc # {}

\* C2 (clip preserves alignment): clip shifts sp and mp by exactly
\* r'.Min - r.Min, so every pixel p of the clipped rectangle is paired with
\* the source and mask pixels the unclipped call pairs it with, and those
\* are the pixels the call reads.
C2_ClipAlignment ==
    Called =>
        LET d == PtSub(cl.r.Min, args.r.Min)
        IN  /\ cl.sp = PtAdd(args.sp, d)
            /\ cl.mp = PtAdd(args.mp, d)
            /\ \A p \in Points(cl.r) :
                  /\ PtAdd(cl.sp, PtSub(p, cl.r.Min)) = PtAdd(args.sp, PtSub(p, args.r.Min))
                  /\ PtAdd(cl.mp, PtSub(p, cl.r.Min)) = PtAdd(args.mp, PtSub(p, args.r.Min))
            /\ \A q \in acc.sacc : Contains(cl.r, PtAdd(PtSub(q, args.sp), args.r.Min))
            /\ \A q \in acc.macc : Contains(cl.r, PtAdd(PtSub(q, args.mp), args.r.Min))

\* clipping moved r.Min, left pixels to draw, and the call read src and mask
C2_Witness ==
    /\ Called /\ cl.r.Min # args.r.Min /\ ~Empty(cl.r)
    /\ acc.sacc # {} /\ acc.macc # {}

\* C3 (frame effect): after any call, on every dispatch path, every
\* destination pixel outside the clipped rectangle has its prior value; when
\* the clipped rectangle is empty the whole destination is unchanged.
C3_Frame ==
    Called =>
        /\ \A i \in DOMAIN dst.Pix : ~Contains(cl.r, PtOf(i)) => dst.Pix[i] = prev[i]
        /\ Empty(cl.r) => dst.Pix = prev

\* a call changed pixels of a clipped rectangle that is not the whole buffer
C3_Witness ==
    /\ Called /\ ~Empty(cl.r) /\ cl.r # Bounds(dst)
    /\ dst.Pix # prev

\* C4 (Draw): Draw(dst, r, src, sp) leaves the destination that
\* DrawMask(dst, r, src, sp, nil, image.ZP, Over) leaves.
C4_DrawIsDrawMask ==
    (Called /\ args.fn = "Draw") =>
        dst.Pix = DrawMask(Before, args.r, SourceBefore, args.sp, NilMask, ZP, Over).pix

\* a Draw call changed the destination
C4_Witness == Called /\ args.fn = "Draw" /\ dst.Pix # prev

\* the first call changed the destination it was given
ChangedByFirst ==
    dst.Pix \notin { d.Pix : d \in DstImages \cup {ClearRGBA, BlueRGBA, BlueRGBA64} }

\* C5 as stated: for all arguments, DrawMask with op Src twice in a row
\* with identical arguments leaves the destination as one call leaves it.
C5_SrcIdempotentAlways ==
    (pc = "repeated" /\ args.op = Src) => dst.Pix = prev

\* C5 (Src idempotence), amended: when src is not the destination buffer,
\* DrawMask with op Src twice in a row with identical arguments leaves the
\* destination as one call leaves it.
C5_SrcIdempotent ==
    (pc = "repeated" /\ args.op = Src /\ ~src.alias) => dst.Pix = prev

\* a Src call through a mask changed the destination and was repeated
C5_Witness ==
    /\ pc = "repeated" /\ args.op = Src /\ ~src.alias
    /\ args.mask.kind # "nil" /\ ~Empty(cl.r) /\ ChangedByFirst

\* every pixel of img is fully transparent
Transparent(img) ==
    IF img.kind = "ColorImage" THEN img.C = zeroColor
    ELSE /\ img.kind # "YCbCr"
         /\ \A i \in DOMAIN img.Pix : ColorRGBA(img.kind, img.Pix[i]) = zeroColor

\* C6 (Over neutrality): DrawMask with op Over, no mask and a fully
\* transparent source leaves every destination pixel unchanged, on the
\* generic loop and on drawFillOver, drawCopyOver, drawNRGBAOver, drawRGBA.
C6_OverNeutral ==
    (Called /\ args.op = Over /\ args.mask.kind = "nil" /\ Transparent(SourceBefore))
        => dst.Pix = prev

\* drawCopyOver ran over a non-empty rectangle with a transparent source
C6_Witness ==
    /\ Called /\ args.op = Over /\ args.mask.kind = "nil" /\ Transparent(SourceBefore)
    /\ acc.path = "drawCopyOver" /\ acc.dacc # {}

\* the destination a call with the given arguments leaves when the source is
\* first copied to a separate temporary buffer
ThroughTemp ==
    DrawMask(Before, args.r, TempCopy, args.sp, args.mask, args.mp, args.op).pix

\* C7 (self-overlap equivalence): for every call with src == dst, whatever
\* the shift and the operator, the final destination equals the result of
\* compositing from a temporary copy of the source region.
C7_SelfOverlap == (Called /\ src.alias) => dst.Pix = ThroughTemp

\* an in-place call with overlapping rectangles and a non-zero shift swept
\* backward and changed the destination
C7_Witness ==
    /\ Called /\ src.alias
    /\ Overlaps(cl.r, RectAdd(cl.r, PtSub(cl.sp, cl.r.Min)))
    /\ cl.sp # cl.r.Min /\ acc.dir = -1 /\ dst.Pix # prev

\* the destination the generic per-pixel loop leaves for the last call's
\* arguments (the 16-bit formula, then the destination's Set)
ByGeneric ==
    Run("generic",
        Context(Before, args.r, SourceBefore, args.sp, args.mask, args.mp, args.op),
        Start(Before)).pix

\* C8 (format-path equivalence): for an *image.RGBA destination, every fast
\* path and drawRGBA store, at every pixel, exactly the 8-bit value the
\* generic per-pixel compositor would store for the same inputs.
C8_FormatPath ==
    (Called /\ dst.kind = "RGBA" /\ ~Empty(cl.r)) => dst.Pix = ByGeneric

\* drawGlyphOver changed the destination
C8_Witness ==
    /\ Called /\ dst.kind = "RGBA" /\ acc.path = "drawGlyphOver" /\ dst.Pix # prev

\* an in-place copy that shifts a region one column to the right
ShiftRight ==
    /\ Called /\ src.alias
    /\ args.r = Rect(1, 0, DstW, DstH - 1)
    /\ args.sp = PtSub(args.r.Min, Pt(1, 0))

\* C9 as stated: for an in-place shift one column to the right the
\* compositor selects backward iteration and the result equals the copy
\* made through a temporary buffer.
C9_ShiftRightBackward == ShiftRight => (acc.dir = -1 /\ dst.Pix = ThroughTemp)

\* C9, amended: for an in-place shift one column to the right the result
\* equals the copy made through a temporary buffer; the generic loop,
\* drawRGBA and drawCopyOver select backward iteration, while drawCopySrc
\* keeps the top-down row order and copies each row with the built-in copy.
C9_ShiftRight ==
    ShiftRight =>
        /\ dst.Pix = ThroughTemp
        /\ acc.path \in {"generic", "drawRGBA", "drawCopyOver"} => acc.dir = -1
        /\ acc.path = "drawCopySrc" => acc.dir = 1

\* drawCopyOver shifted the region right, sweeping backward
C9_Witness ==
    ShiftRight /\ acc.path = "drawCopyOver" /\ acc.dir = -1 /\ dst.Pix # prev

\* C10 (solid fill with Src, no mask): after the call every destination
\* pixel inside the clipped rectangle holds the constant source colour (in
\* the destination's pixel format) and every pixel outside is unchanged; on
\* a 4x4 fully transparent destination, filling the 2x2 rectangle at (1,1)
\* with opaque red leaves the border (0,0,0,0) and makes the interior
\* exactly (65535,0,0,65535).
C10_FillSrc ==
    (Called /\ args.op = Src /\ args.mask.kind = "nil" /\ src.kind = "ColorImage") =>
        /\ \A i \in DOMAIN dst.Pix :
              dst.Pix[i] = IF Contains(cl.r, PtOf(i)) THEN Narrow(dst.kind, src.C)
                                                      ELSE prev[i]
        /\ (prev = ClearRGBA.Pix /\ args.r = Rect(1, 1, 3, 3) /\ src.C = Red) =>
              \A i \in DOMAIN dst.Pix :
                  At(dst, dst.Pix, PtOf(i).X, PtOf(i).Y) =
                      IF Contains(Rect(1, 1, 3, 3), PtOf(i)) THEN <<65535, 0, 0, 65535>>
                                                             ELSE <<0, 0, 0, 0>>

\* drawFillSrc filled the 2x2 rectangle at (1,1) of a transparent
\* destination with opaque red
C10_Witness ==
    /\ pc = "called" /\ prev = ClearRGBA.Pix /\ args.r = Rect(1, 1, 3, 3)
    /\ args.op = Src /\ src = ColorImage(Red) /\ acc.path = "drawFillSrc"
    /\ dst.Pix # prev

\* the last call's arguments after clip
LastContext ==
    Context(Before, args.r, SourceBefore, args.sp, args.mask, args.mp, args.op)

\* the source colour paired with destination pixel p in the last call
SrcColorAt(p) ==
    At(SourceBefore, SourceBefore.Pix, SrcPt(LastContext, p).X, SrcPt(LastContext, p).Y)

\* C11 (Over with an opaque source): after a DrawMask call with op Over,
\* every pixel of the clipped rectangle whose source pixel is fully opaque
\* and whose mask alpha is the maximum (or there is no mask) holds exactly
\* the source colour, in the destination's pixel format, with nothing left
\* of the old destination colour; an opaque red fill drawn with Over over a
\* whole destination filled with opaque blue leaves every pixel exactly red.
C11_OverOpaque ==
    (Called /\ args.op = Over /\ ~src.alias) =>
        /\ \A i \in DOMAIN dst.Pix :
              (/\ Contains(cl.r, PtOf(i))
               /\ SrcColorAt(PtOf(i))[4] = m
               /\ MaskAlpha(LastContext, PtOf(i)) = m)
                  => dst.Pix[i] = Narrow(dst.kind, SrcColorAt(PtOf(i)))
        /\ (prev \in {BlueRGBA.Pix, BlueRGBA64.Pix} /\ args.r = Full /\ src = ColorImage(Red)
               /\ args.mask.kind = "nil") =>
              \A i \in DOMAIN dst.Pix :
                  At(dst, dst.Pix, PtOf(i).X, PtOf(i).Y) = <<65535, 0, 0, 65535>>

\* drawFillOver drew opaque red over the whole of an opaque blue destination
C11_Witness ==
    /\ pc = "called" /\ prev = BlueRGBA.Pix /\ args.r = Full /\ args.op = Over
    /\ src = ColorImage(Red) /\ acc.path = "drawFillOver" /\ dst.Pix # prev

\* C12 (totality): every Draw and DrawMask call returns, whatever the
\* rectangle (empty, inverted, out of bounds), sp, mp, operator and dispatch
\* path: no loop whose exit test is != steps past its end value, no slice
\* index is out of range, and a routine is only entered with a rectangle of
\* positive width and height.
C12_Total ==
    Called =>
        /\ ~acc.hang
        /\ ~acc.panic
        /\ acc.path # "none" => (Dx(cl.r) > 0 /\ Dy(cl.r) > 0)

\* a call with an inverted rectangle returned without entering a routine
C12_Witness ==
    /\ Called /\ Dx(args.r) < 0 /\ Dy(args.r) < 0
    /\ acc.path = "none" /\ ~acc.hang /\ dst.Pix = prev

\* the source colour paired with p, attenuated by the mask: src.c*ma/max
SrcIn(p) ==
    [k \in 1 .. 4 |-> MulDivM(SrcColorAt(p)[k], MaskAlpha(LastContext, p))]

\* a destination like the one the last call was given, with other contents
OtherBefore == [Before EXCEPT !.Pix = [i \in DOMAIN prev |-> prev[DstW * DstH - 1 - i]]]

\* C14 (Src discards the destination): after a DrawMask call with op Src
\* whose source is not the destination buffer, every pixel of the clipped
\* rectangle holds src.c*ma/max per channel in the destination's pixel
\* format (zero when ma = 0, the source colour when ma = max or there is no
\* mask), and the same call on a destination with other prior contents ends
\* with the same pixels inside the clipped rectangle.
C14_SrcDiscardsDst ==
    (Called /\ args.op = Src /\ ~src.alias) =>
        \A i \in DOMAIN dst.Pix :
            Contains(cl.r, PtOf(i)) =>
                /\ dst.Pix[i] = Narrow(dst.kind, SrcIn(PtOf(i)))
                /\ MaskAlpha(LastContext, PtOf(i)) = 0 => dst.Pix[i] = zeroColor
                /\ MaskAlpha(LastContext, PtOf(i)) = m =>
                      dst.Pix[i] = Narrow(dst.kind, SrcColorAt(PtOf(i)))
                /\ dst.Pix[i] =
                      DrawMask(OtherBefore, args.r, src, args.sp, args.mask, args.mp,
                               args.op).pix[i]

\* a Src call through a partly transparent mask changed a destination
\* whose contents differ from the other destination's
C14_Witness ==
    /\ Called /\ args.op = Src /\ ~src.alias /\ acc.path = "generic"
    /\ OtherBefore.Pix # prev /\ dst.Pix # prev
    /\ \E i \in DOMAIN dst.Pix :
          /\ Contains(cl.r, PtOf(i))
          /\ MaskAlpha(LastContext, PtOf(i)) \notin {0, m}
          /\ OtherBefore.Pix[i] # prev[i]

\* C15 (nil mask): a DrawMask call with no mask leaves the destination the
\* same call leaves with a mask that is fully opaque at every coordinate
\* and whose bounds, aligned with r.Min, do not clip r any further, for
\* every dst, r, src, sp and op, also when the masked call is dispatched to
\* another routine (drawGlyphOver or drawRGBA instead of a nil-mask path).
C15_NilMaskOpaque ==
    (Called /\ args.mask.kind = "nil") =>
        \A mk \in OpaqueMasks :
            DrawMask(Before, args.r, SourceBefore, args.sp, mk, args.r.Min, args.op).pix
                = dst.Pix

\* drawCopyOver, a routine only calls without a mask reach, changed the
\* destination
C15_Witness ==
    /\ Called /\ args.mask.kind = "nil" /\ acc.path = "drawCopyOver"
    /\ dst.Pix # prev

\* the generic loop or drawRGBA ran in place (src is dst) and the translated
\* source rectangle overlaps r
InPlaceOverlap ==
    /\ Called /\ src.alias /\ acc.path \in {"generic", "drawRGBA"}
    /\ Overlaps(cl.r, RectAdd(cl.r, PtSub(cl.sp, cl.r.Min)))

\* sp is above r.Min, or on the same row but to its left
SpBefore == cl.sp.Y < cl.r.Min.Y \/ (cl.sp.Y = cl.r.Min.Y /\ cl.sp.X < cl.r.Min.X)

\* C20 as stated: when src is dst and the rectangles overlap, the generic
\* loop and drawRGBA sweep ascending if sp is above r.Min or on the same
\* row to its left, and descending otherwise.
C20_TraversalAsStated ==
    InPlaceOverlap => acc.dir = (IF SpBefore THEN 1 ELSE -1)

\* C20 (aliasing traversal rule), amended: when src is dst and the
\* rectangles overlap, the generic loop and drawRGBA sweep
\* bottom-to-top/right-to-left (descending) if sp is above r.Min or on the
\* same row to its left, and top-to-bottom/left-to-right (ascending)
\* otherwise; the one direction of the call orders both rows and columns.
C20_Traversal ==
    InPlaceOverlap =>
        /\ acc.dir = (IF SpBefore THEN -1 ELSE 1)
        /\ LoopOrder(acc.path, LastContext) =
              (IF SpBefore
               THEN Order(cl.r, cl.r.Max.X - 1, -1, cl.r.Max.Y - 1, -1)
               ELSE Order(cl.r, cl.r.Min.X, 1, cl.r.Min.Y, 1))

\* an in-place call whose sp is on the row of r.Min and to its left swept
\* descending in the generic loop and changed the destination
C20_Witness ==
    /\ InPlaceOverlap /\ acc.path = "generic"
    /\ cl.sp.Y = cl.r.Min.Y /\ cl.sp.X < cl.r.Min.X
    /\ acc.dir = -1 /\ dst.Pix # prev

\* both concurrent calls have returned
ConcDone ==
    /\ DOMAIN calls = Goroutines
    /\ \A t \in Goroutines : at[t].phase = "read" /\ at[t].k > Len(Todo(t))

\* what goroutine t's call leaves in its destination when it runs alone on
\* the buffers b
RunAlone(t, b) ==
    DrawMask(DstOf(t, b), calls[t].r, SrcOf(t, b), calls[t].sp, calls[t].mask,
             calls[t].mp, calls[t].op).pix

\* the buffers after the call of goroutine t and then the other call
OneAfterTheOther(t) ==
    LET b1 == [Bufs0 EXCEPT ![t] = RunAlone(t, Bufs0)]
    IN  [b1 EXCEPT ![Other(t)] = RunAlone(Other(t), b1)]

\* C13 as stated: two concurrent DrawMask calls with disjoint destination
\* buffers leave, under every interleaving of their pixel reads and writes,
\* each destination as the two calls run one after the other leave it.
C13_ConcurrentDisjointDst ==
    ConcDone => bufs \in { OneAfterTheOther(t) : t \in Goroutines }

\* C13 (concurrent calls), amended: two concurrent DrawMask calls with
\* disjoint destination buffers, neither of which reads the other's
\* destination as its source, leave under every interleaving of their
\* pixel reads and writes each destination as the two calls run one after
\* the other, in either order, leave it.
C13_Concurrent ==
    (ConcDone /\ \A t \in Goroutines : ~calls[t].shared) =>
        \A t \in Goroutines : bufs = OneAfterTheOther(t)

\* both calls have returned after their steps interleaved, and both
\* changed their destinations
C13_Witness ==
    /\ ConcDone /\ \A t \in Goroutines : ~calls[t].shared /\ bufs[t] # Bufs0[t]
    /\ calls["A"].mask.kind # "nil"

\* goroutine t's last call has returned; gor[t] holds its results
Returned(t) == gor[t].pc = "idle" /\ gor[t].calls > 0

\* the bytes the Reads have returned so far
Delivered == { hist.delivered[i] : i \in 1 .. Len(hist.delivered) }

\* the Writes whose data has been handed to the pipe and that have not
\* returned
InFlight == { w \in Writers : gor[w].pc \in {"wwait", "wloop"} }

\* C16 as stated (writer close): once PipeWriter.Close or CloseWithError
\* has returned, every Read that starts afterwards (on a read end that is
\* not closed) returns no bytes and os.EOF or the error given, whatever
\* Writes are pending or issued concurrently.
C16_ReadAfterWriterClose ==
    \A r \in Readers :
        (Returned(r) /\ gor[r].late /\ pipe.rerr = NoErr) =>
            (gor[r].n = 0 /\ gor[r].err = pipe.werr)

\* C17 (reader close): once PipeReader.Close or CloseWithError has
\* returned, every Write that starts afterwards returns the reader's error
\* (os.EPIPE or the error given) with n = 0 and none of its bytes reaches a
\* reader, and a Write that was blocked when the reader closed (queued for
\* p.wl, or with its data in the pipe and not all of it consumed) returns
\* that error with n the number of its bytes consumed until then.
C17_WriteAfterReaderClose ==
    \A w \in Writers :
        Returned(w) =>
            /\ gor[w].late =>
                  /\ gor[w].n = 0
                  /\ gor[w].err = pipe.rerr /\ gor[w].err \in {EPIPE, ErrR}
                  /\ \A i \in 1 .. Len(gor[w].b) : gor[w].b[i] \notin Delivered
            /\ gor[w].done >= 0 =>
                  /\ gor[w].err = pipe.rerr /\ gor[w].err \in {EPIPE, ErrR}
                  /\ gor[w].n = gor[w].done
                  /\ \A i \in 1 .. Len(gor[w].b) :
                        gor[w].b[i] \in Delivered <=> i <= gor[w].n

\* a Write blocked with one of its bytes consumed and another pending when
\* the reader closed has returned, and so has a Write that started after
\* the close
C17_Witness ==
    /\ \E w \in Writers :
          Returned(w) /\ gor[w].done > 0 /\ gor[w].done < Len(gor[w].b)
    /\ \E w \in Writers : Returned(w) /\ gor[w].late /\ Len(gor[w].b) > 0

Consumed(i) ==
    IF hist.admitted[i].n >= 0 THEN hist.admitted[i].n
    ELSE Len(hist.admitted[i].b) - Len(pipe.data)

\* the consumed prefixes of the first k admitted Writes, in order
RECURSIVE Prefixes(_)
Prefixes(k) ==
    IF k = 0 THEN << >>
    ELSE Prefixes(k - 1) \o SubSeq(hist.admitted[k].b, 1, Consumed(k))

\* C19 (no buffering, data preserved): with two readers and two writers at
\* work, at most one Write's data is pending in the pipe at any time (what
\* the pipe holds is the unconsumed rest of that Write), and the bytes the
\* Reads returned, in the order the Reads completed, are the consumed
\* prefixes of the Writes in the order the Writes were admitted: no byte is
\* lost, duplicated or reordered.
C19_NoBufferingDataPreserved ==
    /\ Cardinality(InFlight) <= 1
    /\ pipe.avail =>
          \E w \in InFlight :
              pipe.data = SubSeq(gor[w].b, Len(gor[w].b) - Len(pipe.data) + 1, Len(gor[w].b))
    /\ ~pipe.avail => pipe.data = << >>
    /\ \A i \in 1 .. Len(hist.admitted) :
          hist.admitted[i].n < 0 => (i = Len(hist.admitted) /\ hist.admitted[i].w \in InFlight)
    /\ hist.delivered = Prefixes(Len(hist.admitted))

\* both writers had a Write admitted and both readers returned bytes, the
\* long Write consumed in two Reads
C19_Witness ==
    /\ Len(hist.admitted) = 2
    /\ \A w \in Writers : Returned(w) /\ gor[w].n = Len(gor[w].b) /\ gor[w].n > 0
    /\ \A r \in Readers : Returned(r) /\ gor[r].n > 0
    /\ Len(hist.delivered) = MaxLen + 1

\* C21 (aliasing in the same-format copy paths): when source and
\* destination share storage, drawCopyOver sweeps forward (left-to-right,
\* top-down) iff r.Min is before or at sp in row-major order and backward
\* otherwise, drawCopySrc copies the rows top-down iff r.Min.Y <= sp.Y and
\* bottom-up otherwise, and for every shift (same-row shifts left and right
\* and the zero shift included) no pixel is read after it has been
\* overwritten in that call.
C21_CopyPathsAliasing ==
    (Called /\ src.alias /\ ~Empty(cl.r)) =>
        /\ acc.path = "drawCopyOver" =>
              /\ acc.dir = 1 <=>
                    (cl.r.Min.Y < cl.sp.Y \/ (cl.r.Min.Y = cl.sp.Y /\ cl.r.Min.X <= cl.sp.X))
              /\ acc.dir = -1 <=>
                    (cl.r.Min.Y > cl.sp.Y \/ (cl.r.Min.Y = cl.sp.Y /\ cl.r.Min.X > cl.sp.X))
              /\ ~acc.stale
        /\ acc.path = "drawCopySrc" =>
              /\ acc.dir = 1 <=> cl.r.Min.Y <= cl.sp.Y
              /\ acc.dir = -1 <=> cl.r.Min.Y > cl.sp.Y
              /\ ~acc.stale

\* drawCopySrc copied in place, bottom-up, from the row above and one
\* column to the right, rows that overlap the rows it wrote
C21_Witness ==
    /\ pc = "called" /\ src.alias /\ acc.path = "drawCopySrc" /\ acc.dir = -1
    /\ cl.sp.Y = cl.r.Min.Y - 1 /\ cl.sp.X = cl.r.Min.X + 1
    /\ Dy(cl.r) > 1 /\ dst.Pix # prev /\ ~acc.stale

\* the destination pixels of the last call's clipped rectangle whose mask
\* alpha is exactly 0
ZeroCoverage ==
    { i \in DOMAIN dst.Pix :
        Contains(cl.r, PtOf(i)) /\ MaskAlpha(LastContext, PtOf(i)) = 0 }

\* C22 (Over with zero coverage): after a DrawMask call with op Over, every
\* destination pixel whose mask alpha is exactly 0 holds the value it held
\* before the call, whatever the source colour: the generic loop issues no
\* Set for it, drawGlyphOver skips it and drawRGBA's arithmetic reproduces
\* the old 8-bit value.
C22_OverZeroCoverage ==
    (Called /\ args.op = Over /\ ~Empty(cl.r)) =>
        \A i \in ZeroCoverage :
            /\ dst.Pix[i] = prev[i]
            /\ acc.path = "generic" => PtOf(i) \notin acc.dacc

\* drawRGBA composed non-transparent source pixels over a non-transparent
\* destination through a mask with zero and non-zero alphas
C22_Witness ==
    /\ pc = "called" /\ args.op = Over /\ acc.path = "drawRGBA" /\ dst.Pix # prev
    /\ \E i \in ZeroCoverage :
          prev[i] # <<0, 0, 0, 0>> /\ SrcColorAt(PtOf(i))[4] > 0

\* the routine the dispatch table names for an *image.RGBA destination, by
\* operator, mask kind and source kind
Routine(op, mk, sk) ==
    CASE mk = "nil" /\ sk = "ColorImage" -> IF op = Over THEN "drawFillOver" ELSE "drawFillSrc"
      [] mk = "nil" /\ sk = "RGBA"       -> IF op = Over THEN "drawCopyOver" ELSE "drawCopySrc"
      [] mk = "nil" /\ sk = "NRGBA"      -> IF op = Over THEN "drawNRGBAOver" ELSE "drawNRGBASrc"
      [] mk = "nil" /\ sk = "YCbCr"      -> "drawYCbCr"
      [] mk = "Alpha" /\ sk = "ColorImage" /\ op = Over -> "drawGlyphOver"
      [] OTHER -> "drawRGBA"

\* C24 (dispatch): in every DrawMask call whose clipped rectangle is not
\* empty exactly one compositing routine runs, and which one depends only on
\* the kinds of dst, src and mask, on whether there is a mask and on the
\* operator: a destination that is not an *image.RGBA goes to the generic
\* per-pixel loop, an *image.RGBA destination goes to the fast path of the
\* dispatch table, or to drawRGBA when none matches (any masked Src, Over
\* with a mask and a source that is not a ColorImage, a mask that is not an
\* *image.Alpha), and drawRGBA's result equals the generic loop's.
C24_Dispatch ==
    (Called /\ ~Empty(cl.r)) =>
        /\ acc.path = IF dst.kind = "RGBA"
                      THEN Routine(args.op, args.mask.kind, SourceBefore.kind)
                      ELSE "generic"
        /\ (/\ dst.kind = "RGBA" /\ args.mask.kind # "nil"
            /\ (args.op = Src \/ SourceBefore.kind # "ColorImage" \/ args.mask.kind # "Alpha"))
               => acc.path = "drawRGBA"
        /\ acc.path = "drawRGBA" => dst.Pix = ByGeneric

\* a masked Src call on an *image.RGBA destination with a ColorImage source
\* and an *image.Alpha mask went to drawRGBA and changed the destination
C24_Witness ==
    /\ pc = "called" /\ dst.kind = "RGBA" /\ args.op = Src /\ args.mask.kind = "Alpha"
    /\ src.kind = "ColorImage" /\ acc.path = "drawRGBA" /\ dst.Pix # prev

\* the other operator
OtherOp(op) == IF op = Over THEN Src ELSE Over

\* the colour decoded from the luma sample at (sx, sy) and the chroma
\* samples at (sx, sy) for full resolution, (sx/2, sy) for horizontal
\* halving and (sx/2, sy/2) for halving on both axes
Decoded(img, sx, sy) ==
    LET cx == IF img.Ratio = "444" THEN sx ELSE sx \div 2
        cy == IF img.Ratio = "420" THEN sy \div 2 ELSE sy
        rgb == YCbCrToRGB(img.Pix[sy * img.Stride + sx][1],
                          img.CPix[cy * img.CStride + cx][1],
                          img.CPix[cy * img.CStride + cx][2])
    IN  << rgb[1] * 257, rgb[2] * 257, rgb[3] * 257, m >>

\* C25 (chroma-subsampled source, no mask): a DrawMask call with a YCbCr
\* source and a nil mask leaves the same destination under Over and under
\* Src, for each of the three subsampling ratios; every pixel it writes is
\* fully opaque (alpha 255 in an *image.RGBA) and holds the colour decoded
\* from the luma sample at (sx, sy) and the chroma sample at (sx, sy),
\* (sx/2, sy) or (sx/2, sy/2) according to the ratio.
C25_YCbCr ==
    (Called /\ src.kind = "YCbCr" /\ args.mask.kind = "nil" /\ ~Empty(cl.r)) =>
        /\ dst.Pix = DrawMask(Before, args.r, src, args.sp, NilMask, ZP, OtherOp(args.op)).pix
        /\ \A i \in DOMAIN dst.Pix :
              Contains(cl.r, PtOf(i)) =>
                  /\ dst.Pix[i][4] = IF dst.kind = "RGBA" THEN 255 ELSE m
                  /\ dst.Pix[i] = Narrow(dst.kind,
                        Decoded(src, SrcPt(LastContext, PtOf(i)).X, SrcPt(LastContext, PtOf(i)).Y))

\* drawYCbCr decoded a source halved on both axes, from an odd source
\* column and an odd source row among others
C25_Witness ==
    /\ pc = "called" /\ src.kind = "YCbCr" /\ src.Ratio = "420" /\ acc.path = "drawYCbCr"
    /\ args.op = Over /\ dst.Pix # prev
    /\ \E q \in acc.sacc : q.X % 2 = 1 /\ q.Y % 2 = 1

\* Exact integer arithmetic on numbers too large for the checker: a number
\* is << hi, lo >> with value hi * 2^16 + lo, lo < 2^16 and hi unbounded.
\* x * y for x < 2^25 and y < 2^16
Times(x, y) ==
    LET xl == x % W16
        q == xl * (y \div 256)
        r == xl * (y % 256)
        lo == (q % 256) * 256 + r
    IN  << (x \div W16) * y + (q \div 256) + (lo \div W16), lo % W16 >>

Plus(p, q) == << p[1] + q[1] + ((p[2] + q[2]) \div W16), (p[2] + q[2]) % W16 >>

\* the integer quotient by m (hi * 2^16 + lo = hi * m + hi + lo)
OverM(p) == p[1] + ((p[1] + p[2]) \div m)

\* the 16-bit colours of the destination pixel before the call and of the
\* source pixel, and the mask alpha, of a one-pixel call
PixelD == At(Before, prev, 0, 0)
PixelS == SrcColorAt(ZP)
PixelMa == MaskAlpha(LastContext, ZP)

\* out.c = (dst.c*a + src.c*ma) / max with a = max - (sa*ma/max), in exact
\* integer arithmetic
OverFormula ==
    LET a == m - OverM(Times(PixelS[4], PixelMa))
    IN  [k \in 1 .. 4 |-> OverM(Plus(Times(PixelD[k], a), Times(PixelS[k], PixelMa)))]

\* the value a destination of dst's kind holds for the 16-bit colour c that
\* fits in 16 bits: its high byte in an *image.RGBA
Held(c) == IF dst.kind = "RGBA" THEN [k \in 1 .. 4 |-> c[k] \div 256] ELSE c

\* C23 (Over formula): a DrawMask call with op Over on a pixel whose mask
\* alpha ma is above 0 writes, for each of the four channels, out.c =
\* (dst.c*a + src.c*ma) / max with a = max - (sa*ma/max), the divisions
\* being integer divisions and dst.c the pixel's colour before the call
\* (an *image.RGBA destination holds the high byte of out.c); checked for
\* alpha-premultiplied colours on every dispatch path.
C23_OverFormula ==
    (Called /\ args.op = Over /\ PixelMa > 0) => dst.Pix[0] = Held(OverFormula)

\* drawRGBA blended a half-transparent source over a non-transparent pixel
\* through a mask alpha strictly between 0 and max
C23_Witness ==
    /\ Called /\ args.op = Over /\ acc.path = "drawRGBA"
    /\ PixelMa = 32768 /\ PixelS[4] = 32768 /\ PixelS[1] = 257
    /\ prev[0][4] = 255 /\ prev[0][1] = 254 /\ dst.Pix # prev

\* R, G, B <= A
Premultiplied(c) == c[1] <= c[4] /\ c[2] <= c[4] /\ c[3] <= c[4]

\* C27 (premultiplied invariant): if the destination pixel and the source
\* pixel satisfy R, G, B <= A before a DrawMask call, the destination pixel
\* satisfies R, G, B <= A after it, for both operators, every mask alpha
\* and every dispatch path, the 8-bit narrowing of the *image.RGBA paths
\* included.
C27_PremultipliedKept ==
    (Called /\ Premultiplied(prev[0]) /\ Premultiplied(PixelS)) => Premultiplied(dst.Pix[0])

\* drawCopyOver blended a half-transparent source pixel over a
\* half-transparent destination pixel whose red is below its alpha
C27_Witness ==
    /\ Called /\ args.op = Over /\ acc.path = "drawCopyOver"
    /\ prev[0] = <<127, 128, 0, 128>> /\ PixelS[4] = 127 * 257 /\ PixelS[1] = 257
    /\ dst.Pix[0][1] < dst.Pix[0][4] /\ dst.Pix[0][4] < 255 /\ dst.Pix # prev

\* the blend factor of the one-pixel call, and the sum dst.c*a + src.c*ma of
\* channel k before the division, in exact integer arithmetic
BlendA == m - OverM(Times(PixelS[4], PixelMa))
BlendSum(k) == Plus(Times(PixelD[k], BlendA), Times(PixelS[k], PixelMa))

\* the same sum as the *image.RGBA paths form it: the 8-bit destination
\* channel times a*0x101
ScaledSum(k) == Plus(Times(BlendA * 257, prev[0][k]), Times(PixelS[k], PixelMa))

\* src.c*ma / max, in exact integer arithmetic
SrcFormula == [k \in 1 .. 4 |-> OverM(Times(PixelS[k], PixelMa))]

\* C28 (no arithmetic overflow): for alpha-premultiplied inputs (channels
\* and mask alpha in 0 .. 65535, R, G, B <= A), the sums dst.c*a + src.c*ma
\* of the blend, in the 16-bit form and in the a*0x101 form of the
\* *image.RGBA paths, stay below 2^32, every channel result is at most
\* 65535 before it is narrowed, and the pixel stored is the one exact
\* integer arithmetic gives: no truncation changes a result.
C28_NoOverflow ==
    (Called /\ Premultiplied(prev[0]) /\ Premultiplied(PixelS)) =>
        /\ \A k \in 1 .. 4 :
              /\ PixelD[k] <= m /\ PixelS[k] <= m /\ PixelMa <= m
              /\ args.op = Over =>
                    /\ BlendSum(k)[1] < W16
                    /\ dst.kind = "RGBA" => ScaledSum(k) = BlendSum(k)
                    /\ OverFormula[k] <= m
              /\ args.op = Src => SrcFormula[k] <= m
        /\ dst.Pix[0] = Held(IF args.op = Over THEN OverFormula ELSE SrcFormula)

\* drawRGBA blended a transparent source pixel through a partial mask over
\* a pixel whose alpha is the maximum: the sum is max*max, the largest
\* that occurs, and the pixel keeps its value
C28_Witness ==
    /\ Called /\ args.op = Over /\ acc.path = "drawRGBA"
    /\ PixelMa = 32768 /\ PixelS[4] = 0 /\ prev[0][4] = 255
    /\ BlendSum(4) = << 65534, 1 >> /\ dst.Pix[0][4] = 255

\* the bytes of the source pixel of a one-pixel call
PixelBytes == SourceBefore.Pix[0]

\* channel*0x101*alpha/0xff and alpha*0x101
NonPremulFormula(v) ==
    << (v[1] * 257 * v[4]) \div 255, (v[2] * 257 * v[4]) \div 255,
       (v[3] * 257 * v[4]) \div 255, v[4] * 257 >>

\* C26 (widening by 257): every 8-bit value v widens to v*257, which lies
\* in 0 .. 65535, with 0 -> 0 and 255 -> 65535, and narrowing by >> 8
\* returns v; in the *image.RGBA paths the 8-bit destination channel times
\* a*0x101 is the widened channel times a; drawNRGBAOver and drawNRGBASrc
\* convert the non-premultiplied source bytes to channel*0x101*alpha/0xff
\* and alpha*0x101, so drawNRGBASrc writes a source pixel of alpha 255 with
\* its four bytes unchanged and a source pixel of alpha 0 as (0, 0, 0, 0).
C26_Widening ==
    /\ \A v \in 0 .. 255 :
          LET w == ColorRGBA("RGBA", << v, v, v, v >>)
          IN  /\ w[1] = v * 257 /\ w[1] \in 0 .. m
              /\ Pack8(w) = << v, v, v, v >>
    /\ ColorRGBA("RGBA", << 0, 0, 0, 255 >>) = << 0, 0, 0, m >>
    /\ (Called /\ dst.kind = "RGBA") =>
          \A k \in 1 .. 4 :
              /\ PixelD[k] = prev[0][k] * 257
              /\ U32Mul(prev[0][k], BlendA * 257) = U32Mul(PixelD[k], BlendA)
    /\ (Called /\ acc.path \in {"drawNRGBAOver", "drawNRGBASrc"}) =>
          /\ NRGBAToRGBA(PixelBytes) = NonPremulFormula(PixelBytes)
          /\ PixelS = NonPremulFormula(PixelBytes)
    /\ (Called /\ acc.path = "drawNRGBASrc") =>
          /\ dst.Pix[0] = Pack8(NonPremulFormula(PixelBytes))
          /\ PixelBytes[4] = 255 => dst.Pix[0] = PixelBytes
          /\ PixelBytes[4] = 0 => dst.Pix[0] = << 0, 0, 0, 0 >>

\* drawNRGBASrc wrote an opaque source pixel with channel bytes 254, 255
\* and 0 over a different pixel
C26_Witness ==
    /\ Called /\ acc.path = "drawNRGBASrc"
    /\ PixelBytes = << 254, 255, 0, 255 >>
    /\ dst.Pix[0] = PixelBytes /\ dst.Pix # prev

\* goroutine t is inside pipe.read, respectively pipe.write
Reading(t) == gor[t].pc \in {"rl", "rloop", "rwait"}
Writing(t) == gor[t].pc \in {"wl", "wstart", "wwait", "wloop"}

\* C29 (wake-up on the opposite end's close): under fair scheduling, every
\* Read that is inside pipe.read once the write end is closed (waiting for
\* data, woken, or queued behind the reader gate) eventually returns, and
\* every Write that is inside pipe.write once the read end is closed
\* (waiting for its data to be consumed, woken, or queued behind the writer
\* gate) eventually returns.
C29_WakeOnClose ==
    /\ \A t \in Readers : (Reading(t) /\ pipe.werr # NoErr) ~> Returned(t)
    /\ \A t \in Writers : (Writing(t) /\ pipe.rerr # NoErr) ~> Returned(t)

\* with a second Write queued behind the writer gate, a Write that was
\* inside pipe.write when the read end was closed has returned
\* the close's error, and the queued one is still to run
C29_Witness ==
    /\ pipe.rerr = EPIPE /\ pipe.werr = NoErr
    /\ Returned("w1") /\ gor["w1"].done = 0 /\ gor["w1"].err = EPIPE
    /\ gor["w2"].pc = "wl" /\ gor["w2"].done = 0

\* no Read is issued and the read end is open
NoReader == pipe.rerr = NoErr /\ \A t \in Readers : gor[t].calls = 0

\* C30 (Write on a closed write end): when no Read is ever issued and the
\* read end is never closed, a Write that is inside pipe.write once the
\* write end is closed (pending at the close or started after it)
\* eventually returns os.EINVAL.
C30_WriteOnClosedEnd ==
    []NoReader =>
        \A t \in Writers :
            (Writing(t) /\ pipe.werr # NoErr) ~> (Returned(t) /\ gor[t].err = EINVAL)

====
